---------------------------- MODULE Spec2Model ----------------------------
(***************************************************************************)
(* Model of the insurance-brokerage backend:                               *)
(*   - the connection resilience wrapper   (src/src/config/database.ts)    *)
(*   - the blob / local storage service    (src/src/services/storage.ts)   *)
(*   - the document routes                 (src/src/routes/documents.ts)   *)
(***************************************************************************)
EXTENDS Integers, Sequences, FiniteSets, TLC

(***************************************************************************)
(* Bounds of the model.                                                    *)
(***************************************************************************)
\* number of concurrent callers of getConnection / ensureConnection
NumCallers == 2
\* total number of pool.connect() invocations explored
MaxConnects == 3

(***************************************************************************)
(* Program constants.                                                      *)
(***************************************************************************)
\* getConnection(retries = 3, delay = 1000)
Retries == 3
InitialDelay == 1000

\* generateSecureUrl(..., expirySeconds = 900)
DefaultExpirySeconds == 900

Callers == 1..NumCallers
Null == 0
NoError == <<>>

\* number of distinct file contents
NumContents == 2
\* number of files the ./uploads directory holds before the service starts
MaxLegacyFiles == 1

Contents == 1..NumContents
NoFile == 0
ClientIds == {"C123"}
DocumentTypes == {"policy_fee_invoice"}
\* generated names: a unique token and the original extension
PlainNames == {"invoice.pdf", "scan.png"}
\* a file name as its '/'- or '\'-separated segments
FileNames == {<<n>> : n \in PlainNames} \cup {<<"sub", "invoice.pdf">>, <<".">>}
UploadNames == FileNames \ {<<".">>}
Slots == {<<c, d, n>> : c \in ClientIds, d \in DocumentTypes, n \in PlainNames}

VARIABLES
  \* ---- database.ts module state
  isConnected,        \* let isConnected
  connectionError,    \* let connectionError (NoError = null)
  connectionPromise,  \* let connectionPromise (Null, or the id of a connect attempt)
  attempts,           \* the promises pool.connect() has returned, by id: their state
  waiters,            \* per attempt, the callers awaiting it, in the order they awaited
  callers,            \* each caller's position in getConnection / ensureConnection
  lastEvent,          \* the kind of the last step taken on the wrapper
  burst,              \* the calls issued since a call found the wrapper disconnected
                      \* with nothing cached: how many, and ConnectCalls before them
  connectFailure      \* the error code pool.connect() rejects with when it does

dbVars == <<isConnected, connectionError, connectionPromise, attempts, waiters,
            callers, lastEvent, burst, connectFailure>>

VARIABLES
  \* ---- two deployments of storage.ts fed the same calls
  localSvc,           \* a BlobStorageService without a connection string (local mode)
  cloudSvc,           \* a BlobStorageService with one (cloud mode)
  last,               \* the last call made on both, and what each returned
  prev                \* the call before it, likewise

storageVars == <<localSvc, cloudSvc, last, prev>>

VARIABLES
  \* ---- the document routes of one server (routes/documents.ts)
  server,             \* its storageService singleton
  now,                \* Date.now()
  request,            \* the request handled last
  response,           \* the response sent to it
  isProduction        \* process.env.NODE_ENV === 'production'

routeVars == <<server, now, request, response, isProduction>>

VARIABLES
  \* ---- the authentication routes behind the connectivity check (server.ts,
  \* routes/auth.ts)
  authRequest,        \* the request handled last
  authResponse,       \* the response sent to it
  authLog,            \* the exception its handlers caught and logged
  users               \* the users table

authVars == <<authRequest, authResponse, authLog, users>>

VARIABLES
  \* ---- one storage service from its construction on (services/storage.ts)
  service,            \* the BlobStorageService
  called              \* the method called last on it, and how it ended; or, per
                      \* caller, the deleteFile call it has in flight

serviceVars == <<service, called>>

VARIABLES
  \* ---- one Client.create call (models/Client.ts)
  creation            \* its position, its locals, and the calls it has made

clientVars == <<creation>>

vars == <<dbVars, storageVars, routeVars, authVars, serviceVars, clientVars>>

(***************************************************************************)
(* The connection wrapper.                                                 *)
(***************************************************************************)
\* what pool.connect() rejects with: a connection timeout while the server is
\* out of reach, a refused login while the configured credentials are wrong
ErrorCodes == {"ETIMEOUT", "ELOGIN"}
ConnectError(p, code) == <<"connect", p, code>>
PoolEventError == <<"pool">>
QueryError == <<"query">>

IdleCaller ==
  [pc |-> "idle", kind |-> "get", attempt |-> 0, delay |-> InitialDelay,
   lastError |-> NoError, thrown |-> NoError]

\* The module state as one value, threaded through the steps of one tick.
DbState ==
  [isConnected |-> isConnected, connectionError |-> connectionError,
   connectionPromise |-> connectionPromise, attempts |-> attempts,
   waiters |-> waiters, callers |-> callers, failed |-> <<>>]

\* number of pool.connect() invocations so far
ConnectCalls == Len(attempts)
PendingAttempts == {p \in 1..Len(attempts) : attempts[p] = "pending"}

\* database.ts:76-79  connectionPromise = pool.connect(); await connectionPromise
StartAttempt(s, c) ==
  LET p == Len(s.attempts) + 1 IN
  [s EXCEPT !.attempts = Append(@, "pending"),
            !.waiters = Append(@, <<c>>),
            !.connectionPromise = p,
            !.callers[c].pc = "awaitOwn"]

\* getConnection returns the pool to its caller: a direct caller is done, and
\* ensureConnection goes on to its liveness query (database.ts:122)
ReturnPool(s, c) ==
  [s EXCEPT !.callers[c] =
     [IdleCaller EXCEPT !.kind = s.callers[c].kind,
                        !.pc = IF s.callers[c].kind = "ensure" THEN "query" ELSE "returned"]]

\* database.ts:102-104: the loop is exhausted, the cached promise is cleared and
\* the last error thrown; ensureConnection's catch runs in a later microtask
ThrowLast(s, c) ==
  IF s.callers[c].kind = "ensure"
  THEN [s EXCEPT !.connectionPromise = Null,
                 !.callers[c] = [IdleCaller EXCEPT !.kind = "ensure", !.pc = "throwing",
                                                   !.thrown = s.callers[c].lastError],
                 !.failed = Append(@, c)]
  ELSE [s EXCEPT !.connectionPromise = Null,
                 !.callers[c] = [IdleCaller EXCEPT !.pc = "threw",
                                                   !.thrown = s.callers[c].lastError]]

\* a catch block that forgets to clear the cached promise
EnsureCatchKeepsPromise(s, c, err) ==
  [s EXCEPT !.isConnected = FALSE,
            !.connectionError = err,
            !.callers[c] = [IdleCaller EXCEPT !.kind = "ensure", !.pc = "threw", !.thrown = err]]

\* database.ts:124-131: ensureConnection's catch block
EnsureCatch(s, c, err) ==
  [s EXCEPT !.isConnected = FALSE,
            !.connectionError = err,
            !.connectionPromise = Null,
            !.callers[c] = [IdleCaller EXCEPT !.kind = "ensure", !.pc = "threw", !.thrown = err]]

\* a successful attempt that leaves the recorded error in place
OwnSettledKeepsError(s, c, p, ok, code) ==
  IF ok
  THEN ReturnPool([s EXCEPT !.isConnected = TRUE], c)
  ELSE LET s1 == [s EXCEPT !.callers[c].lastError = ConnectError(p, code),
                           !.connectionError = ConnectError(p, code),
                           !.isConnected = FALSE]
       IN IF s.callers[c].attempt < Retries - 1
          THEN [s1 EXCEPT !.callers[c].pc = "backoff"]
          ELSE ThrowLast(s1, c)

\* a loop that waits after its last failed attempt as after the others
OwnSettledAlwaysWaits(s, c, p, ok, code) ==
  IF ok
  THEN ReturnPool([s EXCEPT !.isConnected = TRUE, !.connectionError = NoError], c)
  ELSE [s EXCEPT !.callers[c].lastError = ConnectError(p, code),
                 !.connectionError = ConnectError(p, code),
                 !.isConnected = FALSE,
                 !.callers[c].pc = "backoff"]

\* database.ts:79-98: the continuation of `await connectionPromise` in the loop
OwnSettled(s, c, p, ok, code) ==
  IF ok
  THEN ReturnPool([s EXCEPT !.isConnected = TRUE, !.connectionError = NoError], c)
  ELSE LET s1 == [s EXCEPT !.callers[c].lastError = ConnectError(p, code),
                           !.connectionError = ConnectError(p, code),
                           !.isConnected = FALSE]
       IN IF s.callers[c].attempt < Retries - 1
          THEN [s1 EXCEPT !.callers[c].pc = "backoff"]
          ELSE ThrowLast(s1, c)

\* a waiter that goes on waiting for the promise that rejected
CachedSettledKeepsWaiting(s, c, ok) ==
  IF ok
  THEN ReturnPool(s, c)
  ELSE s

\* a waiter that lets the rejection of the cached promise through to its caller
CachedSettledPropagates(s, c, ok) ==
  IF ok
  THEN ReturnPool(s, c)
  ELSE [s EXCEPT !.callers[c] = [IdleCaller EXCEPT !.pc = "threw",
                                                   !.thrown = s.connectionError]]

\* database.ts:60-67: the continuation of `return await connectionPromise`
CachedSettled(s, c, ok) ==
  IF ok
  THEN ReturnPool(s, c)
  ELSE StartAttempt([s EXCEPT !.connectionPromise = Null], c)

\* The reactions of a settled promise run in the order they were registered.
RECURSIVE RunWaiters(_, _, _, _, _)
RunWaiters(s, ws, p, ok, code) ==
  IF ws = <<>> THEN s
  ELSE LET c == Head(ws)
           s1 == IF s.callers[c].pc = "awaitOwn"
                 THEN OwnSettled(s, c, p, ok, code)
                 ELSE CachedSettled(s, c, ok)
       IN RunWaiters(s1, Tail(ws), p, ok, code)

\* then the catch blocks of the ensureConnection callers whose getConnection threw
RECURSIVE RunCatches(_, _)
RunCatches(s, cs) ==
  IF cs = <<>> THEN s
  ELSE RunCatches(EnsureCatch(s, Head(cs), s.callers[Head(cs)].thrown), Tail(cs))

\* database.ts:53-67 and the first loop iteration: what a call does before it
\* first suspends
Enter(s, c) ==
  IF s.isConnected /\ s.connectionError = NoError
  THEN ReturnPool(s, c)
  ELSE IF s.connectionPromise # Null
       THEN CASE s.attempts[s.connectionPromise] = "pending" ->
                   [s EXCEPT !.waiters[s.connectionPromise] = Append(@, c),
                             !.callers[c].pc = "awaitCached"]
              [] s.attempts[s.connectionPromise] = "resolved" -> ReturnPool(s, c)
              [] OTHER -> StartAttempt([s EXCEPT !.connectionPromise = Null], c)
       ELSE StartAttempt(s, c)

NoBurst == [n |-> 0, base |-> 0]

\* A call that finds the wrapper disconnected with nothing cached starts a
\* burst; a call that finds the burst's first attempt cached and pending joins it.
BurstAfterCall ==
  IF isConnected /\ connectionError = NoError THEN burst
  ELSE IF connectionPromise = Null
       THEN IF burst.n = 0 THEN [n |-> 1, base |-> Len(attempts)] ELSE burst
       ELSE IF /\ burst.n > 0
               /\ connectionPromise = burst.base + 1
               /\ attempts[connectionPromise] = "pending"
            THEN [burst EXCEPT !.n = @ + 1]
            ELSE burst

\* A settled promise that is no longer cached can be observed by nobody: its
\* outcome and its (empty) reaction list are forgotten.
Forget(t) ==
  [t EXCEPT !.attempts = [p \in 1..Len(t.attempts) |->
                            IF t.attempts[p] # "pending" /\ p # t.connectionPromise
                            THEN "settled" ELSE t.attempts[p]],
            !.waiters = [p \in 1..Len(t.attempts) |->
                            IF t.attempts[p] = "pending" THEN t.waiters[p] ELSE <<>>]]

Install(u, ev) ==
  \E v \in {u} : \E t \in {Forget(v)} :
  /\ Len(t.attempts) <= MaxConnects
  /\ burst' = CASE ev \in {"call", "callAfterFailure"} -> BurstAfterCall
                [] ev \in {"poolError", "ensureFailed"} -> NoBurst
                [] OTHER -> burst
  /\ isConnected' = t.isConnected
  /\ connectionError' = t.connectionError
  /\ connectionPromise' = t.connectionPromise
  /\ attempts' = t.attempts
  /\ waiters' = t.waiters
  /\ callers' = t.callers
  /\ lastEvent' = ev
  /\ UNCHANGED <<connectFailure, storageVars, routeVars, authVars, serviceVars, clientVars>>

\* a request handler (or the startup code, database.ts:151) calls
\* getConnection() or ensureConnection()
Call(c, kind) ==
  /\ callers[c].pc = "idle"
  /\ LET s == [DbState EXCEPT !.callers[c] = [IdleCaller EXCEPT !.kind = kind]]
     IN Install(Enter(s, c),
                IF lastEvent \in {"poolError", "ensureFailed"} THEN "callAfterFailure" ELSE "call")

\* pool.connect() of attempt p settles
Settle(p, ok) ==
  /\ p \in PendingAttempts
  /\ \E s0 \in {[DbState EXCEPT !.attempts[p] = IF ok THEN "resolved" ELSE "rejected"]} :
     \E s1 \in {RunWaiters(s0, waiters[p], p, ok, connectFailure)} :
     \E s2 \in {RunCatches(s1, s1.failed)} :
       Install([s2 EXCEPT !.failed = <<>>],
               IF s1.failed # <<>> THEN "ensureFailed" ELSE "other")

\* database.ts:94-96: the backoff timer fires, the delay doubles, the loop goes on
TimerFire(c) ==
  /\ callers[c].pc = "backoff"
  /\ LET s == [DbState EXCEPT !.callers[c].delay = 2 * @,
                             !.callers[c].attempt = @ + 1]
     IN Install(StartAttempt(s, c), "other")

\* database.ts:108-113: the pool's error event
PoolError ==
  /\ Install([DbState EXCEPT !.isConnected = FALSE,
                             !.connectionError = PoolEventError,
                             !.connectionPromise = Null], "poolError")

\* database.ts:122-131: the SELECT 1 of ensureConnection completes
QueryDone(c, ok) ==
  /\ callers[c].pc = "query"
  /\ IF ok
     THEN Install([DbState EXCEPT !.callers[c].pc = "returned"], "other")
     ELSE Install(EnsureCatch(DbState, c, QueryError), "ensureFailed")

\* the caller's request is over; the caller may call again
Finish(c) ==
  /\ callers[c].pc \in {"returned", "threw"}
  /\ Install([DbState EXCEPT !.callers[c] = IdleCaller],
             IF lastEvent \in {"poolError", "ensureFailed"} THEN lastEvent ELSE "other")

(***************************************************************************)
(* The storage service (src/src/services/storage.ts).                      *)
(*                                                                         *)
(* A service is [connectionString, blobServiceClient, isLocalStorage, fs,   *)
(* blobs, types, deleted]: fs is the ./uploads directory of its host       *)
(* (files by path, and the directories that exist, <<>> being ./uploads    *)
(* itself), blobs the container's objects by blob path, and deleted the    *)
(* triples for which deleteFile returned true and that were not uploaded   *)
(* since.                                                                  *)
(* The cloud backend is taken to answer every request.                     *)
(***************************************************************************)
NoRef == [kind |-> "none", at |-> <<>>, ttl |-> 0, perm |-> ""]
\* a path under ./uploads
PathRef(path) == [kind |-> "path", at |-> path, ttl |-> 0, perm |-> ""]
\* blockBlobClient.url: the object's own URL
BlobUrl(key) == [kind |-> "blobUrl", at |-> key, ttl |-> 0, perm |-> ""]
\* blobClient.generateSasUrl({expiresOn: now + expirySeconds, permissions: "r"})
SasUrl(key, expirySeconds) == [kind |-> "sasUrl", at |-> key, ttl |-> expirySeconds, perm |-> "r"]

\* `${clientId}/${documentType}/${fileName}`
BlobPath(c, d, f) == <<c, d>> \o f
\* path.normalize of a path relative to ./uploads: "." names the directory it
\* stands in and ".." the one above; <<"..">> is the working directory
RECURSIVE normalize(_)
normalize(segments) ==
  IF \A i \in 1..Len(segments) : segments[i] \notin {".", ".."} THEN segments
  ELSE LET before == normalize(SubSeq(segments, 1, Len(segments) - 1))
           name == segments[Len(segments)]
       IN CASE name = "." -> before
            [] name = ".." /\ before # <<>> /\ before[Len(before)] # ".." ->
                 SubSeq(before, 1, Len(before) - 1)
            [] OTHER -> Append(before, name)
\* path.join(localStoragePath, clientId, documentType, fileName)
JoinPath(c, d, f) == normalize(<<c, d>> \o f)
\* fileName.includes('/') || fileName.includes('\\')
HasSeparator(f) == Len(f) > 1
\* fileName.split(/[\/\\]/).pop()
CleanFileName(f) == <<f[Len(f)]>>

IsFile(fs, path) == path \in DOMAIN fs.files /\ fs.files[path] # NoFile
IsDirectory(fs, path) == path \in fs.dirs
\* path.extname of the names used here
ExtName == [n \in PlainNames \cup {"."} |->
              CASE n = "invoice.pdf" -> ".pdf" [] n = "scan.png" -> ".png" [] OTHER -> ""]
\* the content type a client sends with a file of that name
MimeType == [n \in PlainNames |-> IF ExtName[n] = ".pdf" THEN "application/pdf" ELSE "image/png"]

\* fs.existsSync
ExistsSync(fs, path) == IsFile(fs, path) \/ IsDirectory(fs, path)
\* fs.readdirSync of path.join('uploads', clientId, documentType): the names of
\* the files and directories in it
ReaddirSync(fs, c, d) ==
  {p[Len(p)] : p \in {q \in {x \in DOMAIN fs.files : fs.files[x] # NoFile} \cup (fs.dirs \ {<<>>}) :
                        /\ q[Len(q)] # ".."
                        /\ SubSeq(q, 1, Len(q) - 1) = normalize(<<c, d>>)}}
\* the entries readdirSync may list first: the order is the file system's
FirstEntries(fs, c, d) ==
  IF ReaddirSync(fs, c, d) = {} THEN {"-"} ELSE ReaddirSync(fs, c, d)

UploadFailed == [ok |-> FALSE, url |-> NoRef, path |-> <<>>,
                 error |-> "Failed to upload file to storage"]
UrlFailed == [ok |-> FALSE, url |-> NoRef, error |-> "Failed to generate secure access URL"]
\* storage.ts:264, 323, 441, 480: !this.blobServiceClient on the cloud branch
NotInitialized(svc) == ~svc.isLocalStorage /\ svc.blobServiceClient = Null

\* mutant: an upload that keeps the file or blob already stored under the key
uploadFileKeepsOld(svc, c, d, f, bytes, contentType) ==
  IF svc.isLocalStorage
  THEN LET made == [svc EXCEPT !.fs.dirs = @ \cup {<<>>, <<c, d>>}]
           fullPath == JoinPath(c, d, f)
       IN IF fullPath \in Slots
          THEN [svc |-> [made EXCEPT !.fs.files[fullPath] = IF @ = NoFile THEN bytes ELSE @,
                                     !.deleted = @ \ {BlobPath(c, d, f)}],
                res |-> [ok |-> TRUE, url |-> PathRef(fullPath), path |-> BlobPath(c, d, f),
                         error |-> ""]]
          ELSE [svc |-> made, res |-> UploadFailed]
  ELSE IF NotInitialized(svc) THEN [svc |-> svc, res |-> UploadFailed]
  ELSE [svc |-> [svc EXCEPT !.blobs[BlobPath(c, d, f)] = IF @ = NoFile THEN bytes ELSE @,
                            !.types[BlobPath(c, d, f)] = IF @ = "" THEN contentType ELSE @,
                            !.deleted = @ \ {BlobPath(c, d, f)}],
        res |-> [ok |-> TRUE, url |-> BlobUrl(BlobPath(c, d, f)), path |-> BlobPath(c, d, f),
                 error |-> ""]]

\* storage.ts:230-293
uploadFile(svc, c, d, f, bytes, contentType) ==
  IF svc.isLocalStorage
  THEN LET made == [svc EXCEPT !.fs.dirs = @ \cup {<<>>, <<c, d>>}]
           fullPath == JoinPath(c, d, f)
       IN IF fullPath \in Slots
          THEN [svc |-> [made EXCEPT !.fs.files[fullPath] = bytes,
                                     !.deleted = @ \ {BlobPath(c, d, f)}],
                res |-> [ok |-> TRUE, url |-> PathRef(fullPath), path |-> BlobPath(c, d, f),
                         error |-> ""]]
          ELSE [svc |-> made, res |-> UploadFailed]
  ELSE IF NotInitialized(svc) THEN [svc |-> svc, res |-> UploadFailed]
  ELSE [svc |-> [svc EXCEPT !.blobs[BlobPath(c, d, f)] = bytes,
                            !.types[BlobPath(c, d, f)] = contentType,
                            !.deleted = @ \ {BlobPath(c, d, f)}],
        res |-> [ok |-> TRUE, url |-> BlobUrl(BlobPath(c, d, f)), path |-> BlobPath(c, d, f),
                 error |-> ""]]

\* a fallback search that stops after the path of the requested name
LocalFallbackExactOnly(svc, c, d, f, first) ==
  IF ExistsSync(svc.fs, JoinPath(c, d, f))
  THEN [ok |-> TRUE, url |-> PathRef(JoinPath(c, d, f)), error |-> ""]
  ELSE UrlFailed

\* storage.ts:335-370: the blob is absent, look under ./uploads
LocalFallback(svc, c, d, f, first) ==
  IF ExistsSync(svc.fs, JoinPath(c, d, f))
  THEN [ok |-> TRUE, url |-> PathRef(JoinPath(c, d, f)), error |-> ""]
  ELSE IF ExistsSync(svc.fs, normalize(<<c, d>>)) /\ ReaddirSync(svc.fs, c, d) # {}
       THEN [ok |-> TRUE, url |-> PathRef(normalize(<<c, d, first>>)), error |-> ""]
       ELSE UrlFailed

\* storage.ts:299-397; first is the entry readdirSync lists first
generateSecureUrl(svc, c, d, f, expirySeconds, first) ==
  IF svc.isLocalStorage
  THEN IF ExistsSync(svc.fs, JoinPath(c, d, f))
       THEN [ok |-> TRUE, url |-> PathRef(JoinPath(c, d, f)), error |-> ""]
       ELSE UrlFailed
  ELSE IF NotInitialized(svc) THEN UrlFailed
  ELSE IF svc.blobs[BlobPath(c, d, f)] # NoFile
       THEN [ok |-> TRUE, url |-> SasUrl(BlobPath(c, d, f), expirySeconds), error |-> ""]
       ELSE LocalFallback(svc, c, d, f, first)

\* fs.unlinkSync: removes a file, throws on a directory
Unlink(svc, path, key) ==
  IF IsFile(svc.fs, path)
  THEN [svc |-> [svc EXCEPT !.fs.files[path] = NoFile, !.deleted = @ \cup {key}],
        res |-> "true"]
  ELSE [svc |-> svc, res |-> "throws"]

\* storage.ts:402-468
deleteFile(svc, c, d, f) ==
  IF svc.isLocalStorage
  THEN IF ExistsSync(svc.fs, JoinPath(c, d, f))
       THEN Unlink(svc, JoinPath(c, d, f), BlobPath(c, d, f))
       ELSE IF HasSeparator(f) /\ ExistsSync(svc.fs, JoinPath(c, d, CleanFileName(f)))
            THEN Unlink(svc, JoinPath(c, d, CleanFileName(f)), BlobPath(c, d, f))
            ELSE [svc |-> svc, res |-> "false"]
  ELSE IF NotInitialized(svc) THEN [svc |-> svc, res |-> "throws"]
  ELSE IF svc.blobs[BlobPath(c, d, f)] # NoFile
       THEN [svc |-> [svc EXCEPT !.blobs[BlobPath(c, d, f)] = NoFile,
                                 !.types[BlobPath(c, d, f)] = "",
                                 !.deleted = @ \cup {BlobPath(c, d, f)}],
             res |-> "true"]
       ELSE [svc |-> svc, res |-> "false"]

\* storage.ts:473-491; the container answers createIfNotExists
ensureContainer(svc) ==
  IF svc.isLocalStorage THEN "returns"
  ELSE IF NotInitialized(svc) THEN "throws" ELSE "returns"

\* what a holder of the reference reads: the file at the path, the blob behind
\* the signed URL
ReadRef(svc, ref) ==
  CASE ref.kind = "path" -> IF IsFile(svc.fs, ref.at) THEN svc.fs.files[ref.at] ELSE NoFile
    [] ref.kind = "sasUrl" -> svc.blobs[ref.at]
    [] OTHER -> NoFile

\* a name no document was ever stored under
UnlistedName == <<"unlisted">>
Keys ==
  {BlobPath(c, d, f) : c \in ClientIds, d \in DocumentTypes, f \in FileNames \cup {UnlistedName}}

EmptyFs == [files |-> [p \in Slots |-> NoFile], dirs |-> {}]
\* the ./uploads directory as earlier runs (or create-test-uploads.ts) left it
LegacyFs(held) ==
  [files |-> [p \in Slots |-> IF p \in held THEN 1 ELSE NoFile],
   dirs |-> {<<p[1], p[2]>> : p \in held} \cup (IF held = {} THEN {} ELSE {<<>>})]

\* AZURE_STORAGE_CONNECTION_STRING: a connection string of an account, absent,
\* blank, or text that is no connection string
AccountConnectionString ==
  <<"A", "c", "c", "o", "u", "n", "t", "N", "a", "m", "e", "=", "a", ";", "A", "c", "c", "o", "u", "n", "t", "K", "e", "y", "=", "k">>
ConnectionStrings == {<<>>, <<" ", " ">>, <<"t", "o", "d", "o">>, AccountConnectionString}
\* connectionString.trim()
RECURSIVE trim(_)
trim(s) ==
  IF s = <<>> THEN s
  ELSE IF Head(s) = " " THEN trim(Tail(s))
  ELSE IF s[Len(s)] = " " THEN trim(SubSeq(s, 1, Len(s) - 1))
  ELSE s
\* BlobServiceClient.fromConnectionString: throws on text it cannot parse
fromConnectionString(connectionString) ==
  IF connectionString = AccountConnectionString THEN "BlobServiceClient" ELSE "throws"
\* fs.mkdirSync(this.localStoragePath, {recursive: true}) unless it exists
MakeRoot(fs) == [fs EXCEPT !.dirs = @ \cup {<<>>}]

\* mutant: a constructor that stays in cloud mode when the client cannot be built
BlobStorageServiceStaysCloud(connectionString, fs) ==
  [connectionString |-> connectionString,
   blobServiceClient |->
     IF trim(connectionString) = <<>> \/ fromConnectionString(connectionString) = "throws"
     THEN Null ELSE 1,
   isLocalStorage |-> trim(connectionString) = <<>>,
   fs |-> IF trim(connectionString) = <<>> THEN MakeRoot(fs) ELSE fs,
   blobs |-> [k \in Keys |-> NoFile], types |-> [k \in Keys |-> ""], deleted |-> {}]

\* storage.ts:190-225: the fields' initial values and the constructor
BlobStorageService(connectionString, fs) ==
  LET fields == [connectionString |-> connectionString, blobServiceClient |-> Null,
                 isLocalStorage |-> FALSE, fs |-> fs, blobs |-> [k \in Keys |-> NoFile],
                 types |-> [k \in Keys |-> ""], deleted |-> {}]
  IN IF connectionString = <<>> \/ trim(connectionString) = <<>>
     THEN [fields EXCEPT !.isLocalStorage = TRUE, !.fs = MakeRoot(fs)]
     ELSE IF fromConnectionString(connectionString) # "throws"
          THEN [fields EXCEPT !.blobServiceClient = 1]
          ELSE [fields EXCEPT !.isLocalStorage = TRUE, !.fs = MakeRoot(fs)]

\* the service of a host without, or with, the account's connection string
NewService(isLocal, fs) ==
  BlobStorageService(IF isLocal THEN <<>> ELSE AccountConnectionString, fs)

\* the same call made on both services
Upload(c, d, f, bytes) ==
  LET l == uploadFile(localSvc, c, d, f, bytes, MimeType[f[Len(f)]])
      r == uploadFile(cloudSvc, c, d, f, bytes, MimeType[f[Len(f)]])
  IN /\ localSvc' = l.svc
     /\ cloudSvc' = r.svc
     /\ last' = [call |-> [op |-> "uploadFile", key |-> BlobPath(c, d, f), bytes |-> bytes],
                 local |-> l.res, cloud |-> r.res]
     /\ prev' = last
     /\ UNCHANGED <<dbVars, routeVars, authVars, serviceVars, clientVars>>

GenerateUrl(c, d, f) ==
  \E first \in FirstEntries(cloudSvc.fs, c, d) :
    /\ last' = [call |-> [op |-> "generateSecureUrl", key |-> BlobPath(c, d, f), bytes |-> NoFile],
                local |-> generateSecureUrl(localSvc, c, d, f, DefaultExpirySeconds, first),
                cloud |-> generateSecureUrl(cloudSvc, c, d, f, DefaultExpirySeconds, first)]
    /\ prev' = last
    /\ UNCHANGED <<localSvc, cloudSvc, dbVars, routeVars, authVars, serviceVars, clientVars>>

Delete(c, d, f) ==
  LET l == deleteFile(localSvc, c, d, f)
      r == deleteFile(cloudSvc, c, d, f)
  IN /\ localSvc' = l.svc
     /\ cloudSvc' = r.svc
     /\ last' = [call |-> [op |-> "deleteFile", key |-> BlobPath(c, d, f), bytes |-> NoFile],
                 local |-> l.res, cloud |-> r.res]
     /\ prev' = last
     /\ UNCHANGED <<dbVars, routeVars, authVars, serviceVars, clientVars>>

(***************************************************************************)
(* The document routes (src/src/routes/documents.ts).                      *)
(*                                                                         *)
(* Strings that the code takes apart (the access token) are sequences of   *)
(* one-character strings.  The clock counts milliseconds.                  *)
(***************************************************************************)
Digit == <<"0", "1", "2", "3", "4", "5", "6", "7", "8", "9">>
IsDigit(ch) == \E i \in 1..10 : Digit[i] = ch
DigitValue(ch) == (CHOOSE i \in 1..10 : Digit[i] = ch) - 1

\* String(n), n >= 0
RECURSIVE NumberToString(_)
NumberToString(n) ==
  IF n < 10 THEN <<Digit[n + 1]>> ELSE Append(NumberToString(n \div 10), Digit[(n % 10) + 1])

\* the longest prefix of decimal digits
RECURSIVE DigitsPrefix(_)
DigitsPrefix(s) ==
  IF s = <<>> \/ ~IsDigit(Head(s)) THEN <<>> ELSE <<Head(s)>> \o DigitsPrefix(Tail(s))

RECURSIVE DecimalValue(_)
DecimalValue(ds) ==
  IF ds = <<>> THEN 0
  ELSE 10 * DecimalValue(SubSeq(ds, 1, Len(ds) - 1)) + DigitValue(ds[Len(ds)])

NaN == [nan |-> TRUE, value |-> 0]
\* parseInt(s, 10): an optional sign, then the digits up to the first character
\* that is not one; NaN when there is no digit there
parseInt(s) ==
  LET signed == s # <<>> /\ Head(s) \in {"-", "+"}
      ds == DigitsPrefix(IF signed THEN Tail(s) ELSE s)
  IN IF ds = <<>> THEN NaN
     ELSE [nan |-> FALSE,
           value |-> IF signed /\ Head(s) = "-" THEN 0 - DecimalValue(ds) ELSE DecimalValue(ds)]

\* s.split(separator) for a separator that matches one character of seps
RECURSIVE splitOn(_, _)
splitOn(s, seps) ==
  IF \A i \in 1..Len(s) : s[i] \notin seps THEN <<s>>
  ELSE LET i == CHOOSE k \in 1..Len(s) :
                  s[k] \in seps /\ \A j \in 1..(k - 1) : s[j] \notin seps
       IN <<SubSeq(s, 1, i - 1)>> \o splitOn(SubSeq(s, i + 1, Len(s)), seps)
\* s.split(sep)
split(s, sep) == splitOn(s, {sep})

\* documents.ts:351
MinTokenLength == 20
\* documents.ts:365, 616: 30 * 60 * 1000
TokenWindow == 1800000
\* documents.ts:220, 415: 15 * 60
ProxyExpirySeconds == 900

\* the clock readings explored
StartTime == 1000000000
Times == {StartTime, StartTime + TokenWindow, StartTime + TokenWindow + 1}

\* Math.random().toString(36).substring(2, 15)
RandomSuffixes == {<<"k", "3", "x", "9", "q", "w", "7", "z", "m", "4", "p">>}
\* the same for Math.random() = 0.5, which toString(36) spells "0.i"
ShortSuffixes == {<<"i">>}
\* documents.ts:598-599
NewToken(timestamp, suffix) == NumberToString(timestamp) \o <<"_">> \o suffix

\* the tokens requests carry: issued ones, and strings made up by the client
RequestTokens ==
  {NewToken(t, r) : t \in Times, r \in RandomSuffixes}            \* as issued at t
  \cup UNION {{NumberToString(StartTime) \o <<"x", "_">> \o r,     \* digits, then a letter
               NewToken(StartTime, r) \o <<"_", "z">>,             \* three segments
               NumberToString(StartTime) \o r,                     \* one segment
               NumberToString(StartTime) \o <<"_">>,               \* eleven characters
               <<"t", "o", "k", "e", "n", "t", "o", "k", "e", "n", "_">> \o r} :
              r \in RandomSuffixes}

\* the names a :filename parameter carries
RouteNames == FileNames \ {<<".">>}
\* documents.ts:53-54 (the one type used here), and a type outside the list
ValidDocumentTypes == DocumentTypes
RouteDocumentTypes == DocumentTypes \cup {"memo"}

NoRequest == [route |-> "none", clientId |-> "", documentType |-> "", filename |-> <<>>,
              token |-> <<>>, at |-> 0, blobUrl |-> <<>>]
Request(route, c, d, f, token) ==
  [route |-> route, clientId |-> c, documentType |-> d, filename |-> f, token |-> token,
   at |-> now, blobUrl |-> <<>>]

\* the expiresIn of a response: a count and its unit, as the text spells them
NoLifetime == [count |-> 0, unit |-> ""]
\* res.status(status).json({message})
Json(status, message) ==
  [status |-> status, message |-> message, url |-> NoRef, fileName |-> <<>>, token |-> <<>>,
   expires |-> 0, contentType |-> "application/json", sent |-> NoFile, detail |-> "",
   expiresIn |-> NoLifetime]
NoResponse == Json(0, "")

\* documents.ts:235-250: the content type by extension, then res.sendFile
ContentTypeOf(path) ==
  LET ext == ExtName[path[Len(path)]]
  IN CASE ext = ".pdf" -> "application/pdf"
       [] ext = ".png" -> "image/png"
       [] OTHER -> "application/octet-stream"
SendFile(svc, path) ==
  [Json(200, "") EXCEPT !.contentType = ContentTypeOf(path),
                        !.sent = ReadRef(svc, PathRef(path))]
\* what fetch(url) meets: the container answers, answers with an error status,
\* or cannot be reached
Upstream == {"ok", "busy", "unreachable"}
\* documents.ts:258-293: fetch(url), the answer re-served; a status that is not
\* ok is passed on with its status text, a fetch that throws with its message
ProxyFetch(svc, url, upstream) ==
  CASE upstream = "ok" ->
         [Json(200, "") EXCEPT !.contentType = svc.types[url.at], !.sent = ReadRef(svc, url)]
    [] upstream = "busy" ->
         [Json(503, "Document not found") EXCEPT !.detail = "response.statusText"]
    [] OTHER ->
         [Json(500, "Error retrieving document content") EXCEPT !.detail = "fetchError.message"]

\* middleware/auth.ts:12-43
Unauthenticated == Json(401, "Authentication required")

\* the characters of the file names, as a blobUrl query parameter spells them
FileText ==
  [n \in PlainNames |->
     IF n = "invoice.pdf" THEN <<"i", "n", "v", "o", "i", "c", "e", ".", "p", "d", "f">>
     ELSE <<"s", "c", "a", "n", ".", "p", "n", "g">>]
\* blobUrl.startsWith('http')
startsWith(s, prefix) == Len(s) >= Len(prefix) /\ SubSeq(s, 1, Len(prefix)) = prefix
\* without the query stripped first
ExtractFileNameKeepsQuery(blobUrl) ==
  IF startsWith(blobUrl, <<"h", "t", "t", "p">>)
  THEN split(blobUrl, "/")[Len(split(blobUrl, "/"))]
  ELSE splitOn(blobUrl, {"/", "\\"})[Len(splitOn(blobUrl, {"/", "\\"}))]
\* documents.ts:100-125, 164-189: the file name a blobUrl query parameter names
ExtractFileName(blobUrl) ==
  IF startsWith(blobUrl, <<"h", "t", "t", "p">>)
  THEN LET urlWithoutParams == split(blobUrl, "?")[1]
           pathSegments == split(urlWithoutParams, "/")
       IN pathSegments[Len(pathSegments)]
  ELSE LET pathSegments == splitOn(blobUrl, {"/", "\\"})
       IN pathSegments[Len(pathSegments)]
\* the document a file name spelled in a request stands for
FileNameOf(text) ==
  IF \E n \in PlainNames : FileText[n] = text
  THEN <<CHOOSE n \in PlainNames : FileText[n] = text>>
  ELSE UnlistedName
\* the references a client sends: the URL of a blob with and without its
\* signature, a local path written with either separator, and references that
\* end in a separator
UrlText(n) ==
  <<"h", "t", "t", "p", "s", ":", "/", "/", "h", "/", "c", "/", "C", "1", "2", "3", "/", "t", "/">>
    \o FileText[n]
SignedUrlText(n) == UrlText(n) \o <<"?", "s", "a", "s", "=", "a", "/", "b">>
PathText(n) ==
  <<"u", "p", "l", "o", "a", "d", "s", "/", "C", "1", "2", "3", "/", "t", "/">>
    \o FileText[n]
BackslashPathText(n) ==
  <<"u", "p", "l", "o", "a", "d", "s", "\\", "C", "1", "2", "3", "\\", "t", "\\">>
    \o FileText[n]
BlobUrls ==
  {UrlText(n) : n \in PlainNames} \cup {PathText(n) : n \in PlainNames}
    \cup {SignedUrlText("invoice.pdf"), BackslashPathText("invoice.pdf"),
          UrlText("invoice.pdf") \o <<"/">>, PathText("invoice.pdf") \o <<"\\">>}

\* documents.ts:40-82; fileName is `${uuidv4()}${fileExtension}`
uploadRoute(svc, c, d, file, fileName) ==
  IF file = NoFile
  THEN [svc |-> svc, res |-> Json(400, "No file uploaded")]
  ELSE IF d \notin ValidDocumentTypes
       THEN [svc |-> svc, res |-> Json(400, "Invalid document type")]
       ELSE LET result == uploadFile(svc, c, d, fileName, file, MimeType[fileName[1]])
            IN IF result.res.ok
               THEN [svc |-> result.svc,
                     res |-> [Json(200, "File uploaded successfully")
                                EXCEPT !.url = result.res.url, !.fileName = fileName]]
               ELSE [svc |-> result.svc, res |-> Json(500, result.res.error)]

\* documents.ts:89-146
urlRoute(svc, c, d, blobUrl, first) ==
  IF blobUrl = <<>>
  THEN Json(400, "Blob URL is required")
  ELSE LET fileName == ExtractFileName(blobUrl)
       IN IF fileName = <<>>
          THEN Json(400, "Invalid blob URL, could not extract filename")
          ELSE LET secureUrl == generateSecureUrl(svc, c, d, FileNameOf(fileName),
                                                  DefaultExpirySeconds, first)
               IN IF secureUrl.ok
                  THEN [Json(200, "") EXCEPT !.url = secureUrl.url,
                                             !.expiresIn = [count |-> 5, unit |-> "minutes"]]
                  ELSE Json(500, secureUrl.error)

\* documents.ts:153-203
deleteByUrlRoute(svc, c, d, blobUrl) ==
  IF blobUrl = <<>>
  THEN [svc |-> svc, res |-> Json(400, "Blob URL is required")]
  ELSE LET fileName == ExtractFileName(blobUrl)
       IN IF fileName = <<>>
          THEN [svc |-> svc, res |-> Json(400, "Invalid blob URL, could not extract filename")]
          ELSE LET r == deleteFile(svc, c, d, FileNameOf(fileName))
               IN IF r.res = "throws"
                  THEN [svc |-> r.svc,
                        res |-> Json(500, "Failed to delete file from storage")]
                  ELSE [svc |-> r.svc, res |-> Json(200, "Document deleted successfully")]

\* documents.ts:206-302
secureRoute(svc, c, d, f, first, upstream) ==
  LET url == generateSecureUrl(svc, c, d, f, ProxyExpirySeconds, first)
  IN IF ~url.ok
     THEN Json(500, "Error generating secure URL")
     ELSE IF url.url.kind = "path"
          THEN IF ~ExistsSync(svc.fs, url.url.at)
               THEN Json(404, "Document not found")
               ELSE SendFile(svc, url.url.at)
          ELSE ProxyFetch(svc, url.url, upstream)

\* documents.ts:305-338
deleteRoute(svc, c, d, f) ==
  LET baseFileName == CleanFileName(f)
      r == deleteFile(svc, c, d, baseFileName)
  IN CASE r.res = "true" -> [svc |-> r.svc, res |-> Json(200, "File deleted successfully")]
       [] r.res = "false" ->
            [svc |-> r.svc, res |-> Json(404, "File not found or could not be deleted")]
       [] OTHER ->
            [svc |-> r.svc,
             res |-> Json(500, "Error deleting file: Failed to delete file from storage")]

\* documents.ts:350-371: the status the token check answers with, 0 when it passes
tokenCheck(token, time) ==
  IF token = <<>> \/ Len(token) < MinTokenLength
  THEN Json(403, "Invalid access token")
  ELSE LET parts == split(token, "_")
       IN IF Len(parts) # 2
          THEN Json(403, "Invalid token format")
          ELSE LET timestamp == parseInt(parts[1])
               IN IF timestamp.nan \/ time - timestamp.value > TokenWindow
                  THEN Json(403, "Token expired")
                  ELSE NoResponse

\* documents.ts:534-576: generateSecureUrl threw
emergencyFallback(svc, c, d, first) ==
  IF ExistsSync(svc.fs, <<c, d>>) /\ ReaddirSync(svc.fs, c, d) # {}
  THEN SendFile(svc, <<c, d, first>>)
  ELSE Json(500, "Error generating secure URL or finding file locally")

\* documents.ts:341-591
publicRoute(svc, token, c, d, f, first, time, upstream) ==
  LET rejection == tokenCheck(token, time)
  IN IF rejection # NoResponse
     THEN rejection
     ELSE IF ExistsSync(svc.fs, JoinPath(c, d, f))
          THEN SendFile(svc, JoinPath(c, d, f))
          ELSE LET url == generateSecureUrl(svc, c, d, f, ProxyExpirySeconds, first)
               IN IF ~url.ok
                  THEN emergencyFallback(svc, c, d, first)
                  ELSE IF url.url.kind = "path"
                       THEN SendFile(svc, url.url.at)
                       ELSE ProxyFetch(svc, url.url, upstream)

\* documents.ts:594-618
tokenRoute(c, d, f, time, suffix) ==
  [Json(200, "") EXCEPT !.token = NewToken(time, suffix),
                        !.url = [kind |-> "publicUrl", at |-> BlobPath(c, d, f),
                                 ttl |-> 0, perm |-> ""],
                        !.expires = time + TokenWindow]

\* the request leads to a fetch from the container: only then does it matter
\* what the fetch meets
Fetches(svc, c, d, f) == ~svc.isLocalStorage /\ svc.blobs[BlobPath(c, d, f)] # NoFile

\* a uuid names no document yet
Unused(svc, c, d, fileName) ==
  /\ ~ExistsSync(svc.fs, JoinPath(c, d, fileName))
  /\ svc.blobs[BlobPath(c, d, fileName)] = NoFile

Respond(req, res, svc) ==
  /\ request' = req
  /\ response' = res
  /\ server' = svc
  /\ UNCHANGED <<now, isProduction, dbVars, storageVars, authVars, serviceVars, clientVars>>

AuthenticatedRoutes == {"upload", "url", "deleteByUrl", "secure", "delete", "token"}

\* middleware/auth.ts:12-43 in front of every route but the public one: a
\* request without a valid bearer token goes no further
Reject(route, c, d) ==
  /\ route \in AuthenticatedRoutes
  /\ Respond(Request(route, c, d, <<>>, <<>>), Unauthenticated, server)

PostUpload(c, d, file, fileName) ==
  /\ d \in ValidDocumentTypes => Unused(server, c, d, fileName)
  /\ LET r == uploadRoute(server, c, d, file, fileName)
     IN Respond(Request("upload", c, d, fileName, <<>>), r.res, r.svc)

\* the document the handlers of a blobUrl reference act on, <<>> when they
\* reject the reference
RequestedName(blobUrl) ==
  LET fileName == ExtractFileName(blobUrl)
  IN IF blobUrl = <<>> \/ fileName = <<>> THEN <<>> ELSE FileNameOf(fileName)

GetUrl(c, d, blobUrl) ==
  \E first \in FirstEntries(server.fs, c, d) :
    Respond([Request("url", c, d, RequestedName(blobUrl), <<>>) EXCEPT !.blobUrl = blobUrl],
            urlRoute(server, c, d, blobUrl, first), server)

DeleteByUrl(c, d, blobUrl) ==
  LET r == deleteByUrlRoute(server, c, d, blobUrl)
  IN /\ request' = [Request("deleteByUrl", c, d, RequestedName(blobUrl), <<>>)
                      EXCEPT !.blobUrl = blobUrl]
     /\ response' = r.res
     /\ server' = r.svc
     /\ UNCHANGED <<now, isProduction, dbVars, storageVars, authVars, serviceVars, clientVars>>

GetSecure(c, d, f, upstream) ==
  /\ upstream # "ok" => Fetches(server, c, d, f)
  /\ \E first \in FirstEntries(server.fs, c, d) :
    Respond(Request("secure", c, d, f, <<>>), secureRoute(server, c, d, f, first, upstream),
            server)

DeleteDocument(c, d, f) ==
  LET r == deleteRoute(server, c, d, f)
  IN /\ request' = Request("delete", c, d, f, <<>>)
     /\ response' = r.res
     /\ server' = r.svc
     /\ UNCHANGED <<now, isProduction, dbVars, storageVars, authVars, serviceVars, clientVars>>

\* a rejected token is rejected before the file name or the container is looked
\* at: such requests are explored for one file name
GetPublic(token, c, d) ==
  LET rejected == tokenCheck(token, now) # NoResponse
  IN \E f \in IF rejected THEN {<<"invoice.pdf">>} ELSE RouteNames,
        upstream \in IF rejected THEN {"ok"} ELSE Upstream :
       /\ upstream # "ok" => Fetches(server, c, d, f)
       /\ \E first \in FirstEntries(server.fs, c, d) :
            Respond(Request("public", c, d, f, token),
                    publicRoute(server, token, c, d, f, first, now, upstream), server)

GetToken(c, d, f, suffix) ==
  /\ request' = Request("token", c, d, f, <<>>)
  /\ response' = tokenRoute(c, d, f, now, suffix)
  /\ UNCHANGED <<server, now, isProduction, dbVars, storageVars, authVars, serviceVars, clientVars>>

\* time passes between one exchange and the next
Tick ==
  /\ \E t \in Times : t > now /\ now' = t
  /\ request' = NoRequest
  /\ response' = NoResponse
  /\ UNCHANGED <<server, isProduction, dbVars, storageVars, authVars, serviceVars, clientVars>>

(***************************************************************************)
(* One storage service from its construction on: the methods called on a   *)
(* service built from whatever connection string the environment holds.    *)
(***************************************************************************)
NoMethod == [op |-> "none", key |-> <<>>, threw |-> FALSE, uninitialized |-> FALSE]
\* the call, whether it threw, and whether it took a branch that logs 'Blob
\* service client is not initialized'
Method(op, key, threw) ==
  [op |-> op, key |-> key, threw |-> threw, uninitialized |-> NotInitialized(service)]

CallUploadFile(c, d, f, bytes) ==
  LET r == uploadFile(service, c, d, f, bytes, MimeType[f[Len(f)]])
  IN /\ service' = r.svc
     /\ called' = Method("uploadFile", BlobPath(c, d, f), ~r.res.ok)
     /\ UNCHANGED <<dbVars, storageVars, routeVars, authVars, clientVars>>

CallGenerateSecureUrl(c, d, f) ==
  \E first \in FirstEntries(service.fs, c, d) :
    /\ called' = Method("generateSecureUrl", BlobPath(c, d, f),
                        ~generateSecureUrl(service, c, d, f, DefaultExpirySeconds, first).ok)
    /\ UNCHANGED <<service, dbVars, storageVars, routeVars, authVars, clientVars>>

CallDeleteFile(c, d, f) ==
  LET r == deleteFile(service, c, d, f)
  IN /\ service' = r.svc
     /\ called' = Method("deleteFile", BlobPath(c, d, f), r.res = "throws")
     /\ UNCHANGED <<dbVars, storageVars, routeVars, authVars, clientVars>>

CallEnsureContainer ==
  /\ called' = Method("ensureContainer", <<>>, ensureContainer(service) = "throws")
  /\ UNCHANGED <<service, dbVars, storageVars, routeVars, authVars, clientVars>>

(***************************************************************************)
(* One storage service holding the documents of several clients: what      *)
(* generateSecureUrl answers for identifiers that hold no path separator.   *)
(***************************************************************************)
TenantClients == {"C123", "C456"}
TenantTypes == {"policy_fee_invoice", "nic_proof"}
TenantSlots == {<<c, d, "invoice.pdf">> : c \in TenantClients, d \in TenantTypes}
\* the values of :clientId, :documentType and :filename
DocumentTypeParams == TenantTypes \cup {".", ".."}
FileNameParams == {"invoice.pdf", ".", ".."} \cup TenantClients \cup TenantTypes
TenantKeys ==
  {<<c, d, f>> : c \in TenantClients, d \in DocumentTypeParams, f \in FileNameParams}

\* ./uploads holding the files of `held`, with the directories above them;
\* <<"..">> is the working directory
TenantFs(held) ==
  [files |-> [p \in TenantSlots |-> IF p \in held THEN 1 ELSE NoFile],
   dirs |-> {<<"..">>, <<>>} \cup {<<p[1]>> : p \in held} \cup {<<p[1], p[2]>> : p \in held}]
\* the service over that directory and, in cloud mode, a container holding the
\* blobs of `stored`
TenantService(isLocal, held, stored) ==
  [NewService(isLocal, TenantFs(held)) EXCEPT
     !.blobs = [k \in TenantKeys |-> IF k \in stored THEN 1 ELSE NoFile],
     !.types = [k \in TenantKeys |-> IF k \in stored THEN "application/pdf" ELSE ""]]

NoAnswer == [op |-> "none", clientId |-> "", documentType |-> "", fileName |-> "",
             ok |-> FALSE, url |-> NoRef]
CallForTenant(c, d, f) ==
  /\ c \in TenantClients
  /\ \E first \in FirstEntries(service.fs, c, d) :
       LET r == generateSecureUrl(service, c, d, <<f>>, DefaultExpirySeconds, first)
       IN called' = [op |-> "generateSecureUrl", clientId |-> c, documentType |-> d,
                     fileName |-> f, ok |-> r.ok, url |-> r.url]
  /\ UNCHANGED <<service, dbVars, storageVars, routeVars, authVars, clientVars>>

(***************************************************************************)
(* deleteFile calls in flight together on one service (storage.ts:402-468). *)
(* In local mode the body holds no await and runs to its end in the tick of *)
(* the call; in cloud mode it awaits blobClient.exists() and then           *)
(* blobClient.delete(), and the container serves the requests of all the    *)
(* calls in the order they reach it.                                        *)
(***************************************************************************)
NotCalled == [pc |-> "idle", key |-> <<>>, existed |-> FALSE, res |-> "none"]
\* the file or the blob of the document is there
DocumentExists(svc, c, d, f) ==
  IF svc.isLocalStorage THEN IsFile(svc.fs, JoinPath(c, d, f))
  ELSE svc.blobs[BlobPath(c, d, f)] # NoFile

\* storage.ts:402-450: the call up to its first await
StartDelete(i, c, d, f) ==
  /\ called[i].pc = "idle"
  /\ IF service.isLocalStorage \/ NotInitialized(service)
     THEN LET r == deleteFile(service, c, d, f)
          IN /\ service' = r.svc
             /\ called' = [called EXCEPT ![i] =
                             [pc |-> "done", key |-> BlobPath(c, d, f),
                              existed |-> DocumentExists(service, c, d, f), res |-> r.res]]
     ELSE /\ called' = [called EXCEPT ![i] =
                          [pc |-> "exists", key |-> BlobPath(c, d, f),
                           existed |-> DocumentExists(service, c, d, f), res |-> "none"]]
          /\ UNCHANGED service
  /\ UNCHANGED <<dbVars, storageVars, routeVars, authVars, clientVars>>

\* storage.ts:452-457: the container answers exists()
ExistsAnswered(i) ==
  /\ called[i].pc = "exists"
  /\ called' = [called EXCEPT ![i] =
                  IF service.blobs[called[i].key] # NoFile
                  THEN [@ EXCEPT !.pc = "delete"]
                  ELSE [@ EXCEPT !.pc = "done", !.res = "false"]]
  /\ UNCHANGED <<service, dbVars, storageVars, routeVars, authVars, clientVars>>

\* storage.ts:459-467: the container answers delete(), with BlobNotFound when
\* the blob is gone, which the catch turns into 'Failed to delete file from
\* storage'
DeleteAnswered(i) ==
  /\ called[i].pc = "delete"
  /\ LET key == called[i].key
     IN IF service.blobs[key] # NoFile
        THEN /\ service' = deleteFile(service, key[1], key[2], SubSeq(key, 3, Len(key))).svc
             /\ called' = [called EXCEPT ![i].pc = "done", ![i].res = "true"]
        ELSE /\ called' = [called EXCEPT ![i].pc = "done", ![i].res = "throws"]
             /\ UNCHANGED service
  /\ UNCHANGED <<dbVars, storageVars, routeVars, authVars, clientVars>>

(***************************************************************************)
(* Client.create (src/src/models/Client.ts:61-150): the INSERT of a client  *)
(* and its retries.  What ensureConnection and request.query answer are     *)
(* inputs of the steps.                                                     *)
(***************************************************************************)
\* let retries = 3
CreateRetries == 3
\* Math.pow(2, 3 - retries) * 100
BackoffDelay(retries) == 2^(3 - retries) * 100

\* an Error raised by the driver, with its message as characters
DriverError(from, message) == [from |-> from, message |-> message]
\* messages request.query rejects with
QueryTimeoutExpired == <<"Q", "u", "e", "r", "y", " ", "t", "i", "m", "e", "o", "u", "t", " ", "e", "x", "p", "i", "r", "e", "d">>
RequestTimeout == <<"T", "i", "m", "e", "o", "u", "t", ":", " ", "R", "e", "q", "u", "e", "s", "t", " ", "f", "a", "i", "l", "e", "d">>
ConnectionWasReset == <<"c", "o", "n", "n", "e", "c", "t", "i", "o", "n", " ", "w", "a", "s", " ", "r", "e", "s", "e", "t">>
ConnectionLost == <<"C", "o", "n", "n", "e", "c", "t", "i", "o", "n", " ", "l", "o", "s", "t">>
Deadlocked == <<"T", "r", "a", "n", "s", "a", "c", "t", "i", "o", "n", " ", "w", "a", "s", " ", "d", "e", "a", "d", "l", "o", "c", "k", "e", "d">>
KeyViolation == <<"V", "i", "o", "l", "a", "t", "i", "o", "n", " ", "o", "f", " ", "P", "R", "I", "M", "A", "R", "Y", " ", "K", "E", "Y">>
QueryErrors ==
  {DriverError("query", m) :
     m \in {QueryTimeoutExpired, RequestTimeout, ConnectionWasReset, ConnectionLost,
            Deadlocked, KeyViolation}}
\* messages ensureConnection throws with (database.ts:104, 130)
LoginFailed == <<"L", "o", "g", "i", "n", " ", "f", "a", "i", "l", "e", "d", " ", "f", "o", "r", " ", "u", "s", "e", "r">>
ConnectErrors == {DriverError("connect", m) : m \in {LoginFailed, ConnectionLost}}

\* String.prototype.includes
includes(text, part) ==
  \E i \in 0..(Len(text) - Len(part)) : SubSeq(text, i + 1, i + Len(part)) = part
\* Client.ts:115-119
isTransientError(err) ==
  \/ includes(err.message, <<"t", "i", "m", "e", "o", "u", "t">>)
  \/ includes(err.message, <<"c", "o", "n", "n", "e", "c", "t", "i", "o", "n">>)
  \/ includes(err.message, <<"d", "e", "a", "d", "l", "o", "c", "k">>)

\* data.id || `C${uuidv4().substring(0, 8)}`
GeneratedId == "C9f1c2e7a"
ClientIdOf(id) == IF id # "" THEN id ELSE GeneratedId

NotCreating ==
  [pc |-> "idle", clientId |-> "", retries |-> CreateRetries, lastError |-> NoError,
   delay |-> 0, returned |-> "", thrown |-> NoError, trace |-> <<>>]
EnsureEvent(error) == [op |-> "ensureConnection", error |-> error, delay |-> 0]
InsertEvent(error) == [op |-> "INSERT", error |-> error, delay |-> 0]
WaitEvent(delay) == [op |-> "wait", error |-> NoError, delay |-> delay]

\* mutant: a catch that retries after every error
insertFailedRetriesAll(cr, err) ==
  LET retries == cr.retries - 1
  IN IF retries > 0
     THEN [cr EXCEPT !.pc = "waiting", !.retries = retries, !.lastError = err,
                     !.delay = BackoffDelay(retries),
                     !.trace = Append(@, InsertEvent(err))]
     ELSE [cr EXCEPT !.pc = "done", !.retries = retries, !.lastError = err,
                     !.thrown = err, !.trace = Append(@, InsertEvent(err))]

\* Client.ts:108-141: the catch of one INSERT and, when the loop ends, the
\* throw of lastError; the driver rejects with Error objects, which lastError
\* takes as they are
insertFailed(cr, err) ==
  LET retries == IF isTransientError(err) THEN cr.retries - 1 ELSE 0
  IN IF isTransientError(err) /\ retries > 0
     THEN [cr EXCEPT !.pc = "waiting", !.retries = retries, !.lastError = err,
                     !.delay = BackoffDelay(retries),
                     !.trace = Append(@, InsertEvent(err))]
     ELSE [cr EXCEPT !.pc = "done", !.retries = retries, !.lastError = err,
                     !.thrown = err, !.trace = Append(@, InsertEvent(err))]

\* Client.ts:61-65: the call, up to its await of db.ensureConnection()
Create(id) ==
  /\ creation.pc = "idle"
  /\ creation' = [creation EXCEPT !.pc = "ensuring", !.clientId = ClientIdOf(id)]
  /\ UNCHANGED <<dbVars, storageVars, routeVars, authVars, serviceVars>>

\* Client.ts:64, 129: ensureConnection returns, or throws into the outer catch
\* (lines 146-149), which rethrows
EnsureSettled(error) ==
  /\ creation.pc \in {"ensuring", "reensuring"}
  /\ creation' =
       IF error = NoError
       THEN [creation EXCEPT !.pc = "inserting", !.trace = Append(@, EnsureEvent(error))]
       ELSE [creation EXCEPT !.pc = "done", !.thrown = error,
                             !.trace = Append(@, EnsureEvent(error))]
  /\ UNCHANGED <<dbVars, storageVars, routeVars, authVars, serviceVars>>

\* Client.ts:91-134: request.query(INSERT ...) resolves or rejects
InsertSettled(error) ==
  /\ creation.pc = "inserting"
  /\ creation' =
       IF error = NoError
       THEN [creation EXCEPT !.pc = "done", !.returned = creation.clientId,
                             !.trace = Append(@, InsertEvent(NoError))]
       ELSE insertFailed(creation, error)
  /\ UNCHANGED <<dbVars, storageVars, routeVars, authVars, serviceVars>>

\* Client.ts:126-129: the timer of the backoff fires and ensureConnection is
\* called
BackoffElapsed ==
  /\ creation.pc = "waiting"
  /\ creation' = [creation EXCEPT !.pc = "reensuring",
                                  !.trace = Append(@, WaitEvent(creation.delay))]
  /\ UNCHANGED <<dbVars, storageVars, routeVars, authVars, serviceVars>>

(***************************************************************************)
(* The connectivity check and the authentication routes (src/src/server.ts, *)
(* src/src/routes/auth.ts) over the users table.  Which call fails while a  *)
(* request is served is an input of the request.                            *)
(***************************************************************************)
LoginPath ==
  <<"/", "a", "p", "i", "/", "a", "u", "t", "h", "/", "l", "o", "g", "i", "n">>
MePath == <<"/", "a", "p", "i", "/", "a", "u", "t", "h", "/", "m", "e">>
UsersPath ==
  <<"/", "a", "p", "i", "/", "a", "u", "t", "h", "/", "u", "s", "e", "r", "s">>
UnroutedAuthPath ==
  <<"/", "a", "p", "i", "/", "a", "u", "t", "h", "/", "l", "o", "g", "o", "u", "t">>
UnroutedPath == <<"/", "a", "p", "i", "/", "r", "e", "p", "o", "r", "t", "s">>

Emails == {"admin@broker.lk", "agent@broker.lk"}
Str(text) == [type |-> "string", value |-> text]
Passwords == {Str("secret"), Str("guess")}
\* a JSON body may carry any value under "password"
NumberPassword == [type |-> "number", value |-> "12345"]
Missing == [type |-> "undefined", value |-> ""]

\* bcrypt.hash and bcrypt.compare of bcryptjs: both throw on an argument that
\* is not a string
Throws == [threw |-> TRUE, value |-> <<>>]
Returns(v) == [threw |-> FALSE, value |-> v]
hashPassword(password) ==
  IF password.type # "string" THEN Throws ELSE Returns(<<"$2a$", password.value>>)
comparePassword(password, hashedPassword) ==
  IF password.type # "string" THEN Throws
  ELSE Returns(<<"$2a$", password.value>> = hashedPassword)

NoUser == [password |-> <<>>, role |-> "", status |-> "absent"]
User(password, role, status) ==
  [password |-> hashPassword(password).value, role |-> role, status |-> status]

\* the call that throws while one request is served, if one does:
\* ensureConnection in the middleware or in the handler, pool.request().query,
\* jwt.sign, or the detached update of last_login (routes/auth.ts:88-108)
Outcomes == {"none", "check", "ensureConnection", "query", "sign", "update"}
Bodies == [email : Emails \cup {""}, password : Passwords \cup {NumberPassword, Missing}]
NoBody == [email |-> "", password |-> Missing]
NoBearer == [userId |-> "", role |-> ""]
Bearers ==
  {NoBearer, [userId |-> "admin@broker.lk", role |-> "admin"],
   [userId |-> "agent@broker.lk", role |-> "agent"]}

NoAuthRequest == [path |-> <<>>, body |-> NoBody, bearer |-> NoBearer]
Unavailable == "Database service unavailable, please try again later"
Reply(status, message) ==
  [status |-> status, message |-> message, error |-> "", token |-> NoBearer]
NoReply == Reply(0, "")
\* the response, the exception caught on the way to it, the users table left
Handled(res, caught, table) == [res |-> res, caught |-> caught, users |-> table]

\* server.ts:65-82: the response of the check, NoReply when it calls next()
checkDatabaseConnection(path, env, table) ==
  IF startsWith(path, <<"/", "a", "p", "i", "/", "a", "u", "t", "h">>)
  THEN IF env # "check" THEN Handled(NoReply, "", table)
       ELSE Handled([Reply(503, Unavailable)
                       EXCEPT !.error = IF isProduction THEN "" ELSE "err.message"],
                    "ensureConnection", table)
  ELSE Handled(NoReply, "", table)

\* routes/auth.ts:10-148 with the update of last_login awaited inside the inner
\* try instead of running detached
loginAwaitsUpdate(body, env, table) ==
  LET user == table[body.email]
      isValidPassword == comparePassword(body.password, user.password)
  IN IF body.email = "" \/ body.password = Missing
     THEN Handled(Reply(400, "Email and password are required"), "", table)
     ELSE \* the inner try, lines 30-136: every exception ends in its catch
          CASE env = "ensureConnection" ->
                 Handled(Reply(503, Unavailable), "ensureConnection", table)
            [] env = "query" -> Handled(Reply(503, Unavailable), "query", table)
            [] user = NoUser -> Handled(Reply(401, "Invalid credentials"), "", table)
            [] isValidPassword.threw ->
                 Handled(Reply(503, Unavailable), "comparePassword", table)
            [] ~isValidPassword.value ->
                 Handled(Reply(401, "Invalid credentials"), "", table)
            [] user.status # "active" ->
                 Handled(Reply(403, "Account is not active. Please contact administrator."),
                         "", table)
            [] env = "sign" -> Handled(Reply(503, Unavailable), "generateToken", table)
            [] env = "update" -> Handled(Reply(503, Unavailable), "updateLastLogin", table)
            [] OTHER ->
                 Handled([Reply(200, "")
                            EXCEPT !.token = [userId |-> body.email, role |-> user.role]],
                         "", table)

\* routes/auth.ts:10-148; the update of last_login runs detached inside its own
\* try/catch, which only logs: the response is sent whatever becomes of it
login(body, env, table) ==
  LET user == table[body.email]
      isValidPassword == comparePassword(body.password, user.password)
  IN IF body.email = "" \/ body.password = Missing
     THEN Handled(Reply(400, "Email and password are required"), "", table)
     ELSE \* the inner try, lines 30-136: every exception ends in its catch
          CASE env = "ensureConnection" ->
                 Handled(Reply(503, Unavailable), "ensureConnection", table)
            [] env = "query" -> Handled(Reply(503, Unavailable), "query", table)
            [] user = NoUser -> Handled(Reply(401, "Invalid credentials"), "", table)
            [] isValidPassword.threw ->
                 Handled(Reply(503, Unavailable), "comparePassword", table)
            [] ~isValidPassword.value ->
                 Handled(Reply(401, "Invalid credentials"), "", table)
            [] user.status # "active" ->
                 Handled(Reply(403, "Account is not active. Please contact administrator."),
                         "", table)
            [] env = "sign" -> Handled(Reply(503, Unavailable), "generateToken", table)
            [] OTHER ->
                 Handled([Reply(200, "")
                            EXCEPT !.token = [userId |-> body.email, role |-> user.role]],
                         IF env = "update" THEN "updateLastLogin" ELSE "", table)

\* routes/auth.ts:151-190, behind middleware/auth.ts:12-43
me(bearer, env, table) ==
  IF bearer = NoBearer
  THEN Handled(Reply(401, "Authentication required"), "", table)
  ELSE CASE env = "ensureConnection" ->
              Handled(Reply(503, Unavailable), "ensureConnection", table)
         [] env = "query" -> Handled(Reply(503, Unavailable), "query", table)
         [] table[bearer.userId] = NoUser -> Handled(Reply(404, "User not found"), "", table)
         [] OTHER -> Handled(Reply(200, ""), "", table)

\* routes/auth.ts:193-254, behind middleware/auth.ts:12-60
createUser(bearer, body, env, table) ==
  LET hashedPassword == hashPassword(body.password)
  IN CASE bearer = NoBearer -> Handled(Reply(401, "Authentication required"), "", table)
       [] bearer.role # "admin" -> Handled(Reply(403, "Unauthorized access"), "", table)
       [] body.email = "" \/ body.password = Missing ->
            Handled(Reply(400, "Missing required fields"), "", table)
       [] env = "ensureConnection" ->
            Handled(Reply(503, Unavailable), "ensureConnection", table)
       [] env = "query" -> Handled(Reply(503, Unavailable), "query", table)
       [] table[body.email] # NoUser -> Handled(Reply(409, "Email already in use"), "", table)
       [] hashedPassword.threw -> Handled(Reply(503, Unavailable), "hashPassword", table)
       [] OTHER ->
            Handled(Reply(201, "User created successfully"), "",
                    [table EXCEPT ![body.email] =
                       [password |-> hashedPassword.value, role |-> "agent",
                        status |-> "active"]])

\* server.ts:65-103, 157-160: the check, then the route, then the 404 handler
handle(path, body, bearer, env, table) ==
  LET checked == checkDatabaseConnection(path, env, table)
  IN IF checked.res # NoReply THEN checked
     ELSE CASE path = LoginPath -> login(body, env, table)
            [] path = MePath -> me(bearer, env, table)
            [] path = UsersPath -> createUser(bearer, body, env, table)
            [] OTHER -> Handled(Reply(404, "Endpoint not found"), "", table)

Serve(path, body, bearer, env) ==
  LET handled == handle(path, body, bearer, env, users)
  IN /\ authRequest' = [path |-> path, body |-> body, bearer |-> bearer]
     /\ authResponse' = handled.res
     /\ authLog' = handled.caught
     /\ users' = handled.users
     /\ UNCHANGED <<dbVars, storageVars, routeVars, serviceVars, clientVars>>

PostLogin(body, env) ==
  /\ body \in Bodies
  /\ Serve(LoginPath, body, NoBearer, env)
GetMe(bearer, env) ==
  /\ bearer \in Bearers
  /\ Serve(MePath, NoBody, bearer, env)
PostUsers(bearer, body, env) ==
  /\ bearer \in Bearers
  /\ Serve(UsersPath, body, bearer, env)
GetUnrouted(path, env) ==
  /\ path \notin {LoginPath, MePath, UsersPath}
  /\ Serve(path, NoBody, NoBearer, env)

(***************************************************************************)
(* Specifications: the wrapper, the storage service, the document     *)
(* routes and the authentication routes are explored one at a time, the    *)
(* others standing still.                                                  *)
(***************************************************************************)
NoCall == [op |-> "none", key |-> <<>>, bytes |-> NoFile]
Nothing == [call |-> NoCall, local |-> "none", cloud |-> "none"]

DbLoaded ==
  /\ isConnected = FALSE
  /\ connectionError = NoError
  /\ connectionPromise = Null
  /\ attempts = <<>>
  /\ waiters = <<>>
  /\ callers = [c \in Callers |-> IdleCaller]
  /\ lastEvent = "other"
  /\ burst = NoBurst

DbAtRest ==
  /\ DbLoaded
  /\ connectFailure = "ETIMEOUT"

\* a service or table that is not part of the exploration
NotBuilt == <<>>

StorageAtRest ==
  /\ localSvc = NotBuilt
  /\ cloudSvc = NotBuilt
  /\ last = Nothing
  /\ prev = Nothing

RoutesAtRest ==
  /\ server = NotBuilt
  /\ now = StartTime
  /\ request = NoRequest
  /\ response = NoResponse
  /\ isProduction = FALSE

ServiceAtRest ==
  /\ service = NotBuilt
  /\ called = NoMethod

ClientAtRest == creation = NotBuilt

AuthAtRest ==
  /\ authRequest = NoAuthRequest
  /\ authResponse = NoReply
  /\ authLog = ""
  /\ users = NotBuilt

\* database.ts:26-32: the module state after load
InitDb ==
  /\ DbAtRest
  /\ ClientAtRest
  /\ StorageAtRest
  /\ RoutesAtRest
  /\ AuthAtRest
  /\ ServiceAtRest

NextDb ==
  \/ \E c \in Callers, kind \in {"get", "ensure"} : Call(c, kind)
  \/ \E p \in 1..MaxConnects, ok \in BOOLEAN : Settle(p, ok)
  \/ \E c \in Callers : TimerFire(c)
  \/ PoolError
  \/ \E c \in Callers, ok \in BOOLEAN : QueryDone(c, ok)
  \/ \E c \in Callers : Finish(c)

SpecDb == InitDb /\ [][NextDb]_vars

\* the same wrapper in front of a server that is out of reach or one that
\* refuses the configured login
InitDbFailures ==
  /\ DbLoaded
  /\ ClientAtRest
  /\ connectFailure \in ErrorCodes
  /\ StorageAtRest
  /\ RoutesAtRest
  /\ AuthAtRest
  /\ ServiceAtRest

SpecDbFailures == InitDbFailures /\ [][NextDb]_vars

\* The exploration of MaxConnects invocations of pool.connect() keeps one in
\* hand for every loop that waits to retry, so that no timer fires into the bound.
Reserved ==
  ConnectCalls + Cardinality({c \in Callers : callers[c].pc = "backoff"}) <= MaxConnects

\* the driver's promise of attempt p settles
SettleStep(p) ==
  \/ Settle(p, TRUE) /\ Reserved'
  \/ Settle(p, FALSE) /\ Reserved'
\* the setTimeout of caller c's backoff fires (database.ts:94)
TimerStep(c) == TimerFire(c) /\ Reserved'

\* each caller makes one call
NextDbFair ==
  \/ \E c \in Callers, kind \in {"get", "ensure"} : Call(c, kind) /\ Reserved'
  \/ \E p \in 1..MaxConnects : SettleStep(p)
  \/ \E c \in Callers : TimerStep(c)
  \/ PoolError /\ Reserved'
  \/ \E c \in Callers, ok \in BOOLEAN : QueryDone(c, ok) /\ Reserved'

\* a pending pool.connect() settles or a running backoff timer fires
Progress ==
  \/ \E p \in 1..MaxConnects : SettleStep(p)
  \/ \E c \in Callers : TimerStep(c)

\* Every pool.connect() settles and every backoff timer fires.  At most
\* MaxConnects promises and timers are ever created, so that none of them is
\* left waiting forever is the weak fairness of their steps taken together.
SpecDbFair == InitDb /\ [][NextDbFair]_vars /\ WF_vars(Progress)

\* storage.ts:197-225, 535: both services constructed over the same ./uploads
InitStorage ==
  /\ DbAtRest
  /\ ClientAtRest
  /\ \E held \in SUBSET Slots :
       /\ Cardinality(held) <= MaxLegacyFiles
       /\ localSvc = NewService(TRUE, LegacyFs(held))
       /\ cloudSvc = NewService(FALSE, LegacyFs(held))
  /\ last = Nothing
  /\ prev = Nothing
  /\ RoutesAtRest
  /\ AuthAtRest
  /\ ServiceAtRest

NextStorage ==
  \/ \E c \in ClientIds, d \in DocumentTypes, f \in UploadNames, b \in Contents :
       Upload(c, d, f, b)
  \/ \E c \in ClientIds, d \in DocumentTypes, f \in FileNames : GenerateUrl(c, d, f)
  \/ \E c \in ClientIds, d \in DocumentTypes, f \in FileNames : Delete(c, d, f)

SpecStorage == InitStorage /\ [][NextStorage]_vars

\* storage.ts:535: the server's storageService, in either mode, over the
\* ./uploads directory as found
InitRoutes ==
  /\ DbAtRest
  /\ ClientAtRest
  /\ StorageAtRest
  /\ \E isLocal \in BOOLEAN, held \in SUBSET Slots :
       /\ Cardinality(held) <= MaxLegacyFiles
       /\ server = NewService(isLocal, LegacyFs(held))
  /\ now = StartTime
  /\ request = NoRequest
  /\ response = NoResponse
  /\ isProduction \in BOOLEAN
  /\ AuthAtRest
  /\ ServiceAtRest

NextRoutes ==
  \/ \E route \in AuthenticatedRoutes, c \in ClientIds, d \in DocumentTypes :
       Reject(route, c, d)
  \/ \E c \in ClientIds, d \in RouteDocumentTypes, file \in Contents \cup {NoFile},
        n \in PlainNames :
       PostUpload(c, d, file, <<n>>)
  \/ \E c \in ClientIds, d \in DocumentTypes, blobUrl \in BlobUrls \cup {<<>>} :
       GetUrl(c, d, blobUrl)
  \/ \E c \in ClientIds, d \in DocumentTypes, blobUrl \in BlobUrls \cup {<<>>} :
       DeleteByUrl(c, d, blobUrl)
  \/ \E c \in ClientIds, d \in DocumentTypes, f \in RouteNames, upstream \in Upstream :
       GetSecure(c, d, f, upstream)
  \/ \E c \in ClientIds, d \in DocumentTypes, f \in RouteNames : DeleteDocument(c, d, f)
  \/ \E token \in RequestTokens, c \in ClientIds, d \in DocumentTypes :
       GetPublic(token, c, d)
  \/ \E c \in ClientIds, d \in DocumentTypes, f \in RouteNames,
        suffix \in RandomSuffixes \cup ShortSuffixes :
       GetToken(c, d, f, suffix)
  \/ Tick

SpecRoutes == InitRoutes /\ [][NextRoutes]_vars

\* server.ts:18, 101: the server started, in either mode, over the users table
\* as found
InitAuth ==
  /\ DbAtRest
  /\ ClientAtRest
  /\ StorageAtRest
  /\ server = NotBuilt
  /\ now = StartTime
  /\ request = NoRequest
  /\ response = NoResponse
  /\ isProduction \in BOOLEAN
  /\ authRequest = NoAuthRequest
  /\ authResponse = NoReply
  /\ authLog = ""
  /\ ServiceAtRest
  /\ \E agent \in {NoUser, User(Str("secret"), "agent", "inactive")} :
       users = [e \in Emails \cup {""} |->
                  CASE e = "admin@broker.lk" -> User(Str("secret"), "admin", "active")
                    [] e = "agent@broker.lk" -> agent
                    [] OTHER -> NoUser]

NextAuth ==
  \/ \E body \in Bodies, env \in Outcomes : PostLogin(body, env)
  \/ \E bearer \in Bearers, env \in Outcomes : GetMe(bearer, env)
  \/ \E bearer \in Bearers, body \in Bodies, env \in Outcomes : PostUsers(bearer, body, env)
  \/ \E path \in {UnroutedAuthPath, UnroutedPath}, env \in Outcomes : GetUnrouted(path, env)

SpecAuth == InitAuth /\ [][NextAuth]_vars

\* storage.ts:535: new BlobStorageService(), whatever the environment holds,
\* over the ./uploads directory as found
InitService ==
  /\ DbAtRest
  /\ ClientAtRest
  /\ StorageAtRest
  /\ RoutesAtRest
  /\ AuthAtRest
  /\ \E connectionString \in ConnectionStrings, held \in SUBSET Slots :
       /\ Cardinality(held) <= MaxLegacyFiles
       /\ service = BlobStorageService(connectionString, LegacyFs(held))
  /\ called = NoMethod

NextService ==
  \/ \E c \in ClientIds, d \in DocumentTypes, f \in UploadNames, b \in Contents :
       CallUploadFile(c, d, f, b)
  \/ \E c \in ClientIds, d \in DocumentTypes, f \in FileNames : CallGenerateSecureUrl(c, d, f)
  \/ \E c \in ClientIds, d \in DocumentTypes, f \in FileNames : CallDeleteFile(c, d, f)
  \/ CallEnsureContainer

SpecService == InitService /\ [][NextService]_vars

\* storage.ts:535: the service of either mode over an ./uploads directory and a
\* container that hold documents of several clients
InitTenants ==
  /\ DbAtRest
  /\ ClientAtRest
  /\ StorageAtRest
  /\ RoutesAtRest
  /\ AuthAtRest
  /\ \E isLocal \in BOOLEAN, held \in SUBSET TenantSlots, stored \in SUBSET TenantSlots :
       /\ Cardinality(held) <= MaxLegacyFiles + 1
       /\ Cardinality(stored) <= MaxLegacyFiles
       /\ isLocal => stored = {}
       /\ service = TenantService(isLocal, held, stored)
  /\ called = NoAnswer

NextTenants ==
  \E c \in TenantClients, d \in DocumentTypeParams, f \in FileNameParams : CallForTenant(c, d, f)

SpecTenants == InitTenants /\ [][NextTenants]_vars

\* storage.ts:535: the service of either mode holding some documents, and
\* callers that each delete one
InitDeletes ==
  /\ DbAtRest
  /\ ClientAtRest
  /\ StorageAtRest
  /\ RoutesAtRest
  /\ AuthAtRest
  /\ \E isLocal \in BOOLEAN, docs \in SUBSET Slots :
       service = [NewService(isLocal, LegacyFs(IF isLocal THEN docs ELSE {})) EXCEPT
                    !.blobs = [k \in Keys |-> IF ~isLocal /\ k \in docs THEN 1 ELSE NoFile],
                    !.types = [k \in Keys |->
                                 IF ~isLocal /\ k \in docs THEN MimeType[k[Len(k)]] ELSE ""]]
  /\ called = [i \in Callers |-> NotCalled]

NextDeletes ==
  \/ \E i \in Callers, c \in ClientIds, d \in DocumentTypes, f \in FileNames :
       StartDelete(i, c, d, f)
  \/ \E i \in Callers : ExistsAnswered(i)
  \/ \E i \in Callers : DeleteAnswered(i)

SpecDeletes == InitDeletes /\ [][NextDeletes]_vars

\* one Client.create call, with or without an id in its data
InitClient ==
  /\ DbAtRest
  /\ StorageAtRest
  /\ RoutesAtRest
  /\ AuthAtRest
  /\ ServiceAtRest
  /\ creation = NotCreating

NextClient ==
  \/ \E id \in {"", "C123"} : Create(id)
  \/ \E error \in {NoError} \cup ConnectErrors : EnsureSettled(error)
  \/ \E error \in {NoError} \cup QueryErrors : InsertSettled(error)
  \/ BackoffElapsed

SpecClient == InitClient /\ [][NextClient]_vars

(***************************************************************************)
(* Claims about the connection wrapper.                                    *)
(***************************************************************************)

\* C1: when two or more getConnection calls are issued while the wrapper is
\* disconnected with no cached promise, pool.connect() is invoked exactly once
\* in total for them (no pool error event or failed liveness query intervening).
C1_ExactlyOneConnect ==
  burst.n >= 2 => ConnectCalls = burst.base + 1

\* C2: in every reachable state at most one pool.connect() attempt is pending.
C2_AtMostOnePending ==
  Cardinality(PendingAttempts) <= 1

PlainKeys == {BlobPath(c, d, <<n>>) : c \in ClientIds, d \in DocumentTypes, n \in PlainNames}

\* the document of a logical key is held: as a file under ./uploads in local
\* mode, as a blob in cloud mode
Exists(svc, key) ==
  IF svc.isLocalStorage THEN IsFile(svc.fs, key) ELSE svc.blobs[key] # NoFile

\* uploadFile succeeded for the triple and generateSecureUrl was called for it next
UploadThenUrl ==
  /\ prev.call.op = "uploadFile"
  /\ last.call.op = "generateSecureUrl"
  /\ last.call.key = prev.call.key

RoundTrips ==
  /\ prev.local.ok /\ prev.cloud.ok
  /\ last.local.ok /\ last.cloud.ok
  /\ ReadRef(localSvc, last.local.url) = prev.call.bytes
  /\ ReadRef(cloudSvc, last.cloud.url) = prev.call.bytes

\* C4 as stated: for every triple and content, uploadFile followed immediately
\* by generateSecureUrl for the same triple succeeds and the returned reference
\* reads back the uploaded bytes, in local mode and in cloud mode.
C4_RoundTripEveryTriple ==
  UploadThenUrl => RoundTrips

\* C4 amended: the same, for the triples whose fileName is a plain file name
\* (no path separator): uploadFile followed immediately by generateSecureUrl
\* succeeds in both modes and the returned path or signed URL reads back
\* exactly the uploaded bytes.
C4_RoundTripPlainNames ==
  (UploadThenUrl /\ last.call.key \in PlainKeys) => RoundTrips

\* a plain name was uploaded over a file ./uploads already held, with other
\* content, and resolved next: a path in local mode, a signed URL in cloud mode
C4_Witness ==
  /\ UploadThenUrl
  /\ last.call.key \in PlainKeys
  /\ prev.call.bytes = 2
  /\ last.local.url.kind = "path"
  /\ last.cloud.url.kind = "sasUrl"
  /\ ReadRef(cloudSvc, PathRef(last.call.key)) = 1

\* C5: once deleteFile has returned true for a triple and the triple was not
\* uploaded again, generateSecureUrl for it fails and returns no URL or path,
\* in local mode and in cloud mode, whatever else is stored.
C5_NoUrlAfterDelete ==
  last.call.op = "generateSecureUrl"
    => /\ last.call.key \in localSvc.deleted => ~last.local.ok /\ last.local.url = NoRef
       /\ last.call.key \in cloudSvc.deleted => ~last.cloud.ok /\ last.cloud.url = NoRef

\* C6: deleteFile for a triple whose document does not exist returns false,
\* does not throw and leaves storage unchanged; deleteFile twice on an existing
\* document returns true and then false.
C6_DeleteAbsentIsFalse ==
  [][ last'.call.op = "deleteFile"
        => /\ ~Exists(localSvc, last'.call.key)
                => last'.local = "false" /\ localSvc' = localSvc
           /\ ~Exists(cloudSvc, last'.call.key)
                => last'.cloud = "false" /\ cloudSvc' = cloudSvc
           /\ Exists(localSvc, last'.call.key) => last'.local = "true"
           /\ Exists(cloudSvc, last'.call.key) => last'.cloud = "true"
    ]_vars

\* C7: fed the same calls, the local-mode and the cloud-mode service return the
\* same outcomes: success or failure, deleteFile's boolean, the logical path,
\* and the bytes readable through the returned reference.
C7_ModesAgree ==
  CASE last.call.op = "uploadFile" ->
         /\ last.local.ok = last.cloud.ok
         /\ last.local.path = last.cloud.path
    [] last.call.op = "generateSecureUrl" ->
         /\ last.local.ok = last.cloud.ok
         /\ ReadRef(localSvc, last.local.url) = ReadRef(cloudSvc, last.cloud.url)
    [] last.call.op = "deleteFile" -> last.local = last.cloud
    [] OTHER -> TRUE

(***************************************************************************)
(* Claims about the document routes.                                       *)
(***************************************************************************)
\* the requested document is held by the server's storage
Stored(svc, req) ==
  Exists(svc, BlobPath(req.clientId, req.documentType, req.filename))
\* nothing is left for the fallback search to find either
NothingToFallBackOn(svc, req) ==
  svc.isLocalStorage \/ ReaddirSync(svc.fs, req.clientId, req.documentType) = {}
StoredBytes(svc, req) ==
  LET key == BlobPath(req.clientId, req.documentType, req.filename)
  IN IF svc.isLocalStorage THEN svc.fs.files[key] ELSE svc.blobs[key]

\* C8: the secure endpoint answers 404, never 500, when the requested document
\* is absent from storage after the whole fallback search, and 200 with the
\* stored bytes and the content type of the extension while the document exists.
C8_SecureNotFoundIs404 ==
  (request.route = "secure" /\ response # Unauthenticated)
    => /\ (~Stored(server, request) /\ NothingToFallBackOn(server, request))
            => response.status = 404
       /\ Stored(server, request)
            => /\ response.status = 200
               /\ response.sent = StoredBytes(server, request)
               /\ response.contentType = ContentTypeOf(request.filename)

\* a segment that is a decimal number
IsNumeric(seg) == seg # <<>> /\ \A i \in 1..Len(seg) : IsDigit(seg[i])

\* C9: the public endpoint answers 403 and serves nothing whenever the token is
\* not two '_'-separated segments, whenever its first segment is not a numeric
\* timestamp, and whenever that timestamp is more than 30 minutes before now.
C9_BadTokenIs403 ==
  request.route = "public"
    => LET parts == split(request.token, "_")
       IN (\/ Len(parts) # 2
           \/ ~IsNumeric(parts[1])
           \/ request.at - DecimalValue(parts[1]) > TokenWindow)
            => response.status = 403 /\ response.sent = NoFile

\* C10: no response of a document endpoint carries the storage backend's own
\* object URL or a signed URL.
C10_NoStorageUrlInResponse ==
  response.url.kind \notin {"blobUrl", "sasUrl"}

(***************************************************************************)
(* Claims about error responses and the file name handling of the routes.  *)
(***************************************************************************)
\* C11: in production mode no error response of a document route carries
\* internal diagnostic detail (an underlying error message, checked paths, the
\* upstream status text).
C11_NoDetailInProduction ==
  (isProduction /\ response.status >= 400) => response.detail = ""

\* C12: both deletion endpoints reduce the reference to a bare file name, call
\* deleteFile with it, and answer 404 when deleteFile returns false and 200
\* when it returns true.
C12_DeleteStatusFollowsResult ==
  [][ (request'.route \in {"deleteByUrl", "delete"} /\ response'.status \notin {400, 401})
        => LET r == deleteFile(server, request'.clientId, request'.documentType,
                               CleanFileName(request'.filename))
           IN /\ server' = r.svc
              /\ r.res = "false" => response'.status = 404
              /\ r.res = "true" => response'.status = 200
    ]_vars


\* the text of s before the first ch, all of s when ch does not occur
BeforeFirst(s, ch) ==
  LET at == {i \in 1..Len(s) : s[i] = ch}
  IN IF at = {} THEN s
     ELSE SubSeq(s, 1, (CHOOSE i \in at : \A j \in at : i <= j) - 1)
\* the text of s after the last character of seps, all of s when none occurs
AfterLast(s, seps) ==
  LET at == {i \in 1..Len(s) : s[i] \in seps}
  IN IF at = {} THEN s
     ELSE SubSeq(s, (CHOOSE i \in at : \A j \in at : j <= i) + 1, Len(s))
NamedFile(blobUrl) ==
  IF startsWith(blobUrl, <<"h", "t", "t", "p">>)
  THEN AfterLast(BeforeFirst(blobUrl, "?"), {"/"})
  ELSE AfterLast(blobUrl, {"/", "\\"})
UrlAnswers(svc, c, d, f) ==
  {LET u == generateSecureUrl(svc, c, d, f, DefaultExpirySeconds, first)
   IN IF u.ok
      THEN [Json(200, "") EXCEPT !.url = u.url, !.expiresIn = [count |-> 5, unit |-> "minutes"]]
      ELSE Json(500, u.error) :
   first \in FirstEntries(svc.fs, c, d)}

\* C13: the URL-issuance and the deletion handler take from a reference that
\* starts with 'http' the last '/'-segment of the text before the first '?',
\* from any other reference the last segment between '/' or '\'; the URL of a
\* blob with its signature and the local path of a file both give the file's
\* name; a reference that gives the empty name is answered 400 and the storage
\* service is not called.
C13_FileNameExtraction ==
  [][ (request'.route \in {"url", "deleteByUrl"} /\ request'.blobUrl # <<>>)
        => LET name == NamedFile(request'.blobUrl)
               c == request'.clientId
               d == request'.documentType
           IN /\ request'.blobUrl \in {SignedUrlText("invoice.pdf"), PathText("invoice.pdf")}
                   => name = FileText["invoice.pdf"]
              /\ IF name = <<>>
                 THEN response'.status = 400 /\ server' = server
                 ELSE IF request'.route = "url"
                      THEN /\ response' \in UrlAnswers(server, c, d, FileNameOf(name))
                           /\ server' = server
                      ELSE /\ server' = deleteFile(server, c, d, FileNameOf(name)).svc
                           /\ response'.status # 400
    ]_vars
\* a URL was issued for the signed URL of a stored document
C13_Witness ==
  /\ request.route = "url"
  /\ request.blobUrl = SignedUrlText("invoice.pdf")
  /\ response.status = 200
  /\ Stored(server, request)
\* a reference ending in a separator was rejected
C13_Rejected ==
  /\ request.route = "deleteByUrl"
  /\ request.blobUrl = PathText("invoice.pdf") \o <<"\\">>
  /\ response.status = 400


\* C14: a request whose path starts with /api/auth is answered 503 'Database
\* service unavailable, please try again later' when ensureConnection threw,
\* and 500 when what failed was not the connection (bcrypt or jsonwebtoken
\* threw).
C14_ConnectivityIs503OtherIs500 ==
  startsWith(authRequest.path, <<"/", "a", "p", "i", "/", "a", "u", "t", "h">>)
    => /\ authLog = "ensureConnection"
            => (authResponse.status = 503 /\ authResponse.message = Unavailable)
       /\ authLog \in {"comparePassword", "hashPassword", "generateToken"}
            => authResponse.status = 500
\* the half of C14 about connectivity failures alone
C14_ConnectivityIs503 ==
  (startsWith(authRequest.path, <<"/", "a", "p", "i", "/", "a", "u", "t", "h">>)
     /\ authLog = "ensureConnection")
    => (authResponse.status = 503 /\ authResponse.message = Unavailable)


\* C15: a service constructed without a connection string, with a blank one, or
\* with one the cloud client cannot be built from, is in local mode with the
\* ./uploads directory in place, and none of its uploadFile, generateSecureUrl,
\* deleteFile and ensureContainer calls ends in 'client is not initialized':
\* each takes the local branch, and ensureContainer returns.
C15_FallbackIsLocalMode ==
  (trim(service.connectionString) = <<>>
     \/ fromConnectionString(service.connectionString) = "throws")
    => /\ service.isLocalStorage
       /\ IsDirectory(service.fs, <<>>)
       /\ service.blobs = [k \in Keys |-> NoFile]
       /\ ~called.uninitialized
       /\ called.op = "ensureContainer" => ~called.threw
\* a file was uploaded to, and a path issued by, a service whose connection
\* string the client could not be built from
C15_Witness ==
  /\ service.connectionString = <<"t", "o", "d", "o">>
  /\ called.op = "generateSecureUrl"
  /\ ~called.threw
  /\ \E c \in ClientIds, d \in DocumentTypes :
       service.fs.files[<<c, d, "scan.png">>] = 2


\* the error classes the retry loop is to go on after
Retryable == {"ETIMEOUT"}
\* C16: getConnection makes another connect attempt only after a failure of the
\* network, timeout or deadlock class; after any other error (a refused login)
\* no further attempt of the same call follows, and the error is thrown.
C16_RetriesOnlyTransientErrors ==
  \A c \in Callers :
    (callers[c].lastError # NoError /\ callers[c].lastError[3] \notin Retryable)
      => callers[c].pc \notin {"backoff", "awaitOwn"}


\* the seconds a reported lifetime stands for
LifetimeSeconds(e) == IF e.unit = "minutes" THEN 60 * e.count ELSE e.count
\* C17: the reference generateSecureUrl returns for a lifetime of T seconds is
\* read-only and expires T > 0 seconds after it was issued, in local mode as in
\* cloud mode, and the URL-issuance endpoint reports the lifetime T.
C17_ReferenceExpiresAsReported ==
  (request.route = "url" /\ response.status = 200)
    => /\ response.url.perm = "r"
       /\ response.url.ttl = DefaultExpirySeconds
       /\ response.url.ttl > 0
       /\ LifetimeSeconds(response.expiresIn) = response.url.ttl
\* the part of C17 about the reference alone
C17_ReferenceExpires ==
  (request.route = "url" /\ response.status = 200)
    => (response.url.perm = "r" /\ response.url.ttl = DefaultExpirySeconds)
\* the part of C17 about the reported lifetime, for signed URLs
C17_LifetimeReported ==
  (request.route = "url" /\ response.status = 200 /\ response.url.kind = "sasUrl")
    => LifetimeSeconds(response.expiresIn) = response.url.ttl


RECURSIVE Pow2(_)
Pow2(k) == IF k = 0 THEN 1 ELSE 2 * Pow2(k - 1)
\* caller c awaits a pool.connect() of its own retry loop, and it settles now
OwnAttemptSettles(c) ==
  /\ callers[c].pc = "awaitOwn"
  /\ \E p \in PendingAttempts : c \in {waiters[p][i] : i \in 1..Len(waiters[p])}
                                  /\ attempts'[p] # "pending"
\* the attempt caller c awaits
Awaited(c) == CHOOSE p \in PendingAttempts : c \in {waiters[p][i] : i \in 1..Len(waiters[p])}

\* C18: the retry loop of one getConnection call invokes pool.connect() at most
\* retries times; after its k-th failed attempt, k < retries, it waits
\* delay * 2^(k-1) ms before the next; after the last it does not wait but
\* throws the error of that attempt, the cached promise cleared; when an attempt
\* succeeds it marks the wrapper connected, clears the error and returns the pool.
C18_RetryLoop ==
  [][ \A c \in Callers :
        /\ callers'[c].pc = "awaitOwn" => callers'[c].attempt < Retries
        /\ (OwnAttemptSettles(c) /\ isConnected')
             => /\ connectionError' = NoError
                /\ callers'[c].pc \in {"returned", "query"}
        /\ (OwnAttemptSettles(c) /\ ~isConnected' /\ callers[c].attempt + 1 < Retries)
             => /\ callers'[c].pc = "backoff"
                /\ callers'[c].delay = InitialDelay * Pow2(callers[c].attempt)
                /\ callers'[c].attempt = callers[c].attempt
                /\ ConnectCalls' = ConnectCalls \/ \E o \in Callers \ {c} : callers'[o].pc = "awaitOwn"
        /\ (OwnAttemptSettles(c) /\ ~isConnected' /\ callers[c].attempt + 1 = Retries)
             => /\ callers'[c].pc = "threw"
                /\ callers'[c].thrown = ConnectError(Awaited(c), connectFailure)
                /\ connectionPromise' = Null \/ connectionPromise' > ConnectCalls
        /\ (callers[c].pc = "backoff" /\ callers'[c].pc # "backoff")
             => /\ callers'[c].pc = "awaitOwn"
                /\ callers'[c].attempt = callers[c].attempt + 1
                /\ callers'[c].delay = 2 * callers[c].delay
                /\ ConnectCalls' = ConnectCalls + 1
    ]_vars
\* a call waits twice the initial delay after its second failed attempt
C18_Witness ==
  \E c \in Callers :
    /\ callers[c].pc = "backoff"
    /\ callers[c].attempt = 1
    /\ callers[c].delay = 2 * InitialDelay
    /\ callers[c].lastError = ConnectError(2, connectFailure)
\* a call threw the error of its third attempt
C18_Exhausted ==
  \E c \in Callers :
    /\ callers[c].pc = "threw"
    /\ callers[c].kind = "get"
    /\ callers[c].thrown = ConnectError(3, connectFailure)
    /\ connectionPromise = Null


\* C19: a call that finds a pending promise cached invokes no pool.connect() of
\* its own while that promise is pending; when the promise resolves the call
\* returns the pool; when it rejects the call throws nothing, drops the cached
\* promise and starts a retry loop of its own, from its first attempt, with a
\* pool.connect() of its own.
C19_WaiterOnCachedPromise ==
  [][ \A c \in Callers :
        callers[c].pc = "awaitCached"
          => \/ /\ callers'[c] = callers[c]
                /\ ConnectCalls' > ConnectCalls => waiters'[ConnectCalls'][1] # c
             \/ /\ isConnected'
                /\ callers'[c].pc \in {"returned", "query"}
                /\ callers'[c].thrown = NoError
                /\ ConnectCalls' = ConnectCalls
             \/ /\ ~isConnected'
                /\ callers'[c].pc = "awaitOwn"
                /\ callers'[c].attempt = 0
                /\ callers'[c].delay = InitialDelay
                /\ callers'[c].thrown = NoError
                /\ ConnectCalls' > ConnectCalls
                /\ \E p \in (ConnectCalls + 1)..ConnectCalls' :
                     /\ waiters'[p] = <<c>>
                     /\ attempts'[p] = "pending"
    ]_vars
\* the promise a second call awaited has rejected: its owner waits to retry,
\* and the second call awaits the first attempt of its own loop
C19_Witness ==
  \E c1, c2 \in Callers :
    /\ c1 # c2
    /\ callers[c1].pc = "backoff"
    /\ callers[c1].lastError = ConnectError(1, connectFailure)
    /\ callers[c2].pc = "awaitOwn"
    /\ callers[c2].attempt = 0
    /\ connectionPromise = 2
    /\ attempts[2] = "pending"
    /\ lastEvent = "other"


\* the key of the last call, taken apart
LastClient == last.call.key[1]
LastType == last.call.key[2]
LastName == SubSeq(last.call.key, 3, Len(last.call.key))
\* root/clientId/documentType/fileName as path.join resolves it
LastPath == IF LastName = <<".">> THEN <<LastClient, LastType>> ELSE last.call.key
\* the files of root/clientId/documentType on the cloud host
LastDirectory ==
  {p \in Slots : p[1] = LastClient /\ p[2] = LastType /\ cloudSvc.fs.files[p] # NoFile}
LastPathExists ==
  \/ LastPath \in Slots /\ cloudSvc.fs.files[LastPath] # NoFile
  \/ LastPath \in cloudSvc.fs.dirs

\* C20: in cloud mode generateSecureUrl answers, when the blob exists, the
\* read-only URL signed for exactly that blob whatever ./uploads holds; when the
\* blob is absent, the local path of the requested name if it exists (the
\* root-relative and the 'uploads'-relative candidate are the same path);
\* otherwise the path of some file of the local client/document type
\* directory; and it fails exactly when the blob and all of these are absent.
C20_CloudFallbackOrder ==
  last.call.op = "generateSecureUrl"
    => IF cloudSvc.blobs[last.call.key] # NoFile
       THEN last.cloud = [ok |-> TRUE, error |-> "",
                          url |-> [kind |-> "sasUrl", at |-> last.call.key,
                                   ttl |-> DefaultExpirySeconds, perm |-> "r"]]
       ELSE IF LastPathExists
            THEN last.cloud = [ok |-> TRUE, error |-> "",
                               url |-> [kind |-> "path", at |-> LastPath, ttl |-> 0, perm |-> ""]]
            ELSE IF LastDirectory # {}
                 THEN /\ last.cloud.ok
                      /\ last.cloud.url.kind = "path"
                      /\ last.cloud.url.at \in LastDirectory
                 ELSE /\ ~last.cloud.ok
                      /\ last.cloud.url = NoRef
\* the last resort: neither the blob nor the local path of the requested name
\* exists, and the path of another file of the directory was returned
C20_Witness ==
  /\ last.call.op = "generateSecureUrl"
  /\ cloudSvc.blobs[last.call.key] = NoFile
  /\ ~LastPathExists
  /\ last.cloud.ok
  /\ last.cloud.url.at \in LastDirectory
  /\ last.cloud.url.at # last.call.key
\* the blob exists beside a local file of the same triple: the signed URL is returned
C20_BlobFirst ==
  /\ last.call.op = "generateSecureUrl"
  /\ cloudSvc.blobs[last.call.key] # NoFile
  /\ LastPathExists
  /\ last.cloud.url.kind = "sasUrl"


\* C22: whenever getConnection returns the pool to a caller, the wrapper is
\* connected at that moment: isConnected is true and connectionError is null.
GetsPool(c) ==
  /\ callers[c].pc \notin {"returned", "query"}
  /\ callers'[c].pc \in {"returned", "query"}
C22_PoolReturnedOnlyWhenConnected ==
  [][ \A c \in Callers : GetsPool(c) => isConnected' /\ connectionError' = NoError ]_vars

\* C23: in the step that follows the pool's error event, unless that step
\* starts a new pool.connect(), the wrapper is not marked connected: no attempt
\* that was in flight when the event fired sets isConnected.
C23_InFlightAttemptDoesNotReconnect ==
  [][ (lastEvent = "poolError" /\ ConnectCalls' = ConnectCalls) => ~isConnected' ]_vars

\* C30: isConnected and a recorded connectionError are never both set.
C30_ConnectedMeansNoError ==
  isConnected => connectionError = NoError
\* the wrapper is connected after an earlier attempt had failed and recorded its error
C30_Witness ==
  /\ isConnected
  /\ connectionError = NoError
  /\ ConnectCalls >= 2
  /\ \E c \in Callers : callers[c].pc = "returned" /\ callers[c].attempt = 0 /\ lastEvent = "other"


\* C29: when every pool.connect() settles and every backoff timer fires, each
\* getConnection call that is waiting eventually returns the pool or throws; a
\* call waits on a cached promise only as its first wait, and its own loop
\* never starts an attempt of index retries or more.
Waiting(c) == callers[c].pc \in {"awaitCached", "awaitOwn", "backoff"}
Ended(c) == callers[c].pc \in {"returned", "query", "threw"}
UnderRequestedDirectory ==
  /\ Len(called.url.at) >= 2
  /\ called.url.at[1] = called.clientId
  /\ called.url.at[2] = called.documentType
\* a name of a client, document type or file, not a reference to a directory
PlainIdentifier(x) == x \notin {".", ".."}

\* C28 as stated: for identifiers without path separators, every reference
\* generateSecureUrl returns is to an object under the clientId and
\* documentType of the call.
C28_ReferenceStaysWithTenant ==
  (called.op = "generateSecureUrl" /\ called.ok) => UnderRequestedDirectory
\* for identifiers that are neither "." nor "..", every reference returned is
\* to a document stored under the clientId and documentType of the call
C28_PlainIdentifiersStayWithTenant ==
  (/\ called.op = "generateSecureUrl"
   /\ called.ok
   /\ PlainIdentifier(called.documentType)
   /\ PlainIdentifier(called.fileName))
    => /\ UnderRequestedDirectory
       /\ Len(called.url.at) = 3
\* the last resort of cloud mode answered with a file of the client and type
\* of the call while files and blobs of another client were there to be found
C28_LastResortWithinTenant ==
  /\ called.op = "generateSecureUrl"
  /\ called.ok
  /\ called.url.kind = "path"
  /\ called.fileName = "C456"
  /\ called.clientId = "C123"
  /\ called.url.at = <<"C123", called.documentType, "invoice.pdf">>
  /\ ~service.isLocalStorage
  /\ \E p \in TenantSlots : p[1] = "C456" /\ service.fs.files[p] # NoFile
  /\ \E p \in TenantSlots : p[1] = "C456" /\ service.blobs[p] # NoFile


\* the time a token says it was minted at
MintedAt(token) == parseInt(split(token, "_")[1])
\* C24: the public endpoint serves a document only on a token that the
\* issuance endpoint minted within the last 30 minutes; in particular the
\* token's time of issue is not later than the request.
C24_ServesOnlyMintedTokens ==
  (request.route = "public" /\ response.status = 200 /\ response.sent # NoFile)
    => /\ ~MintedAt(request.token).nan
       /\ MintedAt(request.token).value <= request.at
       /\ request.at - MintedAt(request.token).value <= TokenWindow

\* C25: a token minted at time t passes the public endpoint's validation at
\* every time from t to the reported expiry t + 30 minutes, and fails it
\* after, whatever suffix Math.random() gave it.
C25_MintedTokenValidForWindow ==
  (request.route = "token" /\ response.status = 200)
    => /\ response.expires = request.at + TokenWindow
       /\ \A time \in {request.at, request.at + 1, response.expires} :
            tokenCheck(response.token, time) = NoResponse
       /\ tokenCheck(response.token, response.expires + 1) # NoResponse
\* the same for the tokens whose suffix has the usual eleven characters
C25_LongSuffixValidForWindow ==
  (request.route = "token" /\ response.status = 200 /\ Len(response.token) >= MinTokenLength)
    => /\ response.expires = request.at + TokenWindow
       /\ \A time \in {request.at, request.at + 1, response.expires} :
            tokenCheck(response.token, time) = NoResponse
       /\ tokenCheck(response.token, response.expires + 1) # NoResponse


\* C27: POST /api/auth/login puts a token in its response only when a user row
\* exists for the email, the password matches the stored hash and the status
\* is 'active'; a 400, 401, 403, 503 or 500 response carries no token; and when
\* the detached update of last_login fails the response is the one sent when
\* it succeeds.
C27_TokenOnlyOnSuccessfulLogin ==
  authRequest.path = LoginPath =>
    LET user == users[authRequest.body.email]
    IN /\ authResponse.token # NoBearer
            => /\ authResponse.status = 200
               /\ user # NoUser
               /\ comparePassword(authRequest.body.password, user.password) = Returns(TRUE)
               /\ user.status = "active"
               /\ authResponse.token = [userId |-> authRequest.body.email, role |-> user.role]
       /\ authResponse.status \in {400, 401, 403, 500, 503} => authResponse.token = NoBearer
       /\ authLog = "updateLastLogin"
            => /\ authResponse.status = 200
               /\ authResponse.token = [userId |-> authRequest.body.email, role |-> user.role]
\* a login answered with a token although the update of last_login failed
C27_Witness ==
  /\ authRequest.path = LoginPath
  /\ authLog = "updateLastLogin"
  /\ authResponse.status = 200
  /\ authResponse.token = [userId |-> "admin@broker.lk", role |-> "admin"]


\* C26: of two deleteFile calls for the same document, which existed when one
\* of them was made, exactly one returns true and the other returns false, and
\* neither throws, in local mode and in cloud mode.
C26_ExactlyOneDeletes ==
  \A i, j \in Callers :
    (/\ i # j
     /\ called[i].pc = "done" /\ called[j].pc = "done"
     /\ called[i].key = called[j].key
     /\ called[i].existed)
      => {called[i].res, called[j].res} = {"true", "false"}
\* the half of C26 about local mode, where the body of a call runs in one tick
C26_LocalExactlyOneDeletes ==
  service.isLocalStorage => C26_ExactlyOneDeletes
\* two calls for one blob that were both told it exists: the first delete was
\* served, the second threw
C26_BothSawTheBlob ==
  \E i, j \in Callers :
    /\ i # j
    /\ called[i].key = called[j].key
    /\ called[i].existed /\ called[j].existed
    /\ called[i].res = "true" /\ called[j].res = "throws"


\* the INSERT attempts of the call, and the waits between them, in order
Inserts == SelectSeq(creation.trace, LAMBDA e : e.op = "INSERT")
Waits == SelectSeq(creation.trace, LAMBDA e : e.op = "wait")
\* what C21 says of the attempts: an INSERT is re-issued only after a transient
\* error, after a backoff wait and an ensureConnection call, at most three are
\* made, the waits grow, a non-transient error ends the attempts, and the
\* client id is returned only if an INSERT succeeded
C21_Attempts ==
  /\ Len(Inserts) <= 3
  /\ \A k \in 1..(Len(Inserts) - 1) :
       Inserts[k].error # NoError /\ isTransientError(Inserts[k].error)
  /\ \A p \in 1..Len(creation.trace) :
       (creation.trace[p].op = "INSERT" /\ \E q \in 1..(p - 1) : creation.trace[q].op = "INSERT")
         => /\ creation.trace[p - 1] = EnsureEvent(NoError)
            /\ creation.trace[p - 2].op = "wait"
            /\ creation.trace[p - 3].op = "INSERT"
  /\ \A k \in 1..(Len(Waits) - 1) : Waits[k].delay < Waits[k + 1].delay
  /\ \A k \in 1..Len(Waits) : Waits[k].delay > 0
  /\ (creation.pc = "done" /\ Inserts # <<>> /\ Inserts[1].error # NoError
        /\ ~isTransientError(Inserts[1].error)) => Len(Inserts) = 1
  /\ creation.returned # ""
       => /\ Inserts # <<>>
          /\ Inserts[Len(Inserts)].error = NoError
          /\ creation.returned = creation.clientId
          /\ creation.thrown = NoError
C21_EnsureErrorThrown ==
  /\ creation.pc = "done"
  /\ Len(Inserts) = 1
  /\ creation.thrown \in ConnectErrors

=============================================================================
